---- MODULE Spec2Model ----
(***************************************************************************)
(* Data-access layer of the fundraising backend:                           *)
(*   - ConnectionPool and SheetsClient (app/services/sheets_client.py)     *)
(*   - BaseRepository and its TTL cache                                    *)
(*     (app/repositories/base_repository.py)                               *)
(* The specifications share the variables: SpecPool (callers of the       *)
(* pool), SpecClient (one client operation at a time, with its retry       *)
(* loop), SpecHealth (the pool's callers beside the client's health        *)
(* check) and, for one repository instance over one sheet, SpecRepo and    *)
(* its variants over given tables, entity types and callers.               *)
(***************************************************************************)
EXTENDS Integers, Sequences, FiniteSets, TLC

(***************************************************************************)
(* Bounds of the model                                                     *)
(***************************************************************************)
\* max_connections the pool is constructed with
MaxConnections == 2
\* sleeps of the pool's wait loop that are counted (the counter saturates)
MaxPolls == 2

\* concurrent callers of the pool: two more than the pool can serve, so that
\* one can wait for a handle while another arrives
Callers == 1 .. (MaxConnections + 2)
NoTask == 0
NoHandle == 0

VARIABLES
    \* ---- ConnectionPool ----
    connections,   \* number of handles built so far; the handles are 1..connections
    in_use,        \* set of handles marked in use
    lockOwner,     \* the task holding ConnectionPool._lock, or NoTask
    ppc,           \* each pool caller's position
    held,          \* the handle each pool caller got from get_connection
    polls,         \* sleeps done by the wait loop (saturating)
    \* ---- SheetsClient ----
    credentials,   \* self.credentials: "set" or "none"
    needsRefresh,  \* credentials.expired, or 50 minutes since the last refresh
    max_retries,   \* retry_config.max_retries
    cpc,           \* position of the client operation in progress
    opName,        \* which client operation is in progress
    script,        \* what the remote call does on its 1st, 2nd, ... invocation
    attempt,       \* loop variable of _execute_with_retry
    calls,         \* invocations of the remote call by this operation
    sleeps,        \* backoff sleeps of this operation
    skipped,       \* attempts that raised before reaching the remote call
    result,        \* what the operation returned or raised
    \* ---- BaseRepository over one sheet ----
    sheet,         \* rows of the sheet tab, the header row first
    now,           \* datetime.utcnow(), in ticks
    cache,         \* self._cache: per-id entries
    list_cache,    \* self._list_cache
    rpc,           \* each repository caller's position
    rop,           \* the call in progress: method and arguments
    rloc,          \* its locals that live across a remote call
    rcalls,        \* client calls issued by the call in progress
    rret,          \* what the last call returned or raised
    hist,          \* record of completed calls, for stating properties
    model_class,   \* self.model_class: which entity type the repository holds
    grid_rows,     \* data rows the sheet tab has room for
    spreadsheet_id, \* self.spreadsheet_id: "set" or "none"
    \* ---- ContributionRepository over the Contributions tab ----
    contributions, \* data rows of the tab
    tpc,           \* position of the query in progress
    tquery,        \* the query: method and arguments
    tanswer,       \* what the query returned or raised
    \* ---- SheetsClient._calculate_delay and the sleeps of one operation ----
    retry_config,  \* self.retry_config
    slept,         \* the delays slept so far by the operation in progress
    delay,         \* what a call of _calculate_delay returned or raised
    \* ---- RepositoryFactory ----
    settings_id,   \* settings.GOOGLE_SHEETS_SPREADSHEET_ID
    factory,       \* the factory: its configuration and its six slots
    got,           \* what the last call on the factory returned
    \* ---- BaseRepository.update by two tasks on one entity ----
    urow,          \* the entity's row in the sheet
    ucache,        \* the repository's caches: the entity's entry and the list
    upc,           \* each task's position in update
    uloc,          \* each task's updated_entity
    \* ---- SheetsClient._ensure_authenticated by several tasks ----
    auth_lock,     \* the task holding self._auth_lock, or NoTask
    apc,           \* each task's position in _ensure_authenticated
    refreshed,     \* refreshes done since the credentials last expired
    \* ---- StateTargetRepository.create_or_update_target by two tasks ----
    target_sheet,  \* data rows of the State Targets tab, below the header row
    target_cache,  \* the repository's caches: the per-id entries and the list
    tgpc,          \* each task's position in create_or_update_target
    tgloc,         \* each task's arguments and locals
    \* ---- StateRepository.create_or_update_state and get_by_code ----
    state_sheet,   \* data rows of the States tab, below the header row
    state_cache,   \* the repository's caches: the per-id entries and the list
    stpc,          \* the caller's position in the call in progress
    stloc,         \* the call in progress: method, arguments and locals
    stret,         \* what the last call returned or raised
    \* ---- FunderRepository.add_tag and add_contribution_to_funder ----
    funder_row,    \* the funder as its row of the Funders tab holds it
    funder_cache,  \* the cached objects: the per-id entry, the list, and whether both hold one object
    fpc,           \* the caller's position in the call in progress
    floc,          \* the call in progress: method, argument and updated_entity
    fret,          \* what the last call returned or raised
    \* ---- client operations run by several tasks over the pool ----
    opc,           \* each task's position in its operation
    oattempt,      \* each task's loop variable of _execute_with_retry
    opending,      \* what each task's attempt does once its finally clause has run
    \* ---- BaseRepository.create over SheetsClient.append_rows and its retries ----
    remote_rows,   \* the data rows the remote spreadsheet holds: the id of each
    crpc,          \* the caller's position in create
    crcall         \* the create in progress: the entity, the loop variable, the rows held when it was called

poolVars == <<connections, in_use, lockOwner, ppc, held, polls>>
clientVars == <<credentials, needsRefresh, max_retries, cpc, opName, script,
                attempt, calls, sleeps, skipped, result>>

repoVars == <<sheet, now, cache, list_cache, rpc, rop, rloc, rcalls, rret, hist,
              model_class, grid_rows, spreadsheet_id>>

totalsVars == <<contributions, tpc, tquery, tanswer>>

\* the variables of the parts modelled on their own
delayVars == <<retry_config, slept, delay>>
factoryVars == <<settings_id, factory, got>>
updateVars == <<urow, ucache, upc, uloc>>
authVars == <<auth_lock, apc, refreshed>>
targetVars == <<target_sheet, target_cache, tgpc, tgloc>>
stateVars == <<state_sheet, state_cache, stpc, stloc, stret>>
funderVars == <<funder_row, funder_cache, fpc, floc, fret>>
opVars == <<opc, oattempt, opending>>
appendVars == <<remote_rows, crpc, crcall>>
auxVars == <<totalsVars, delayVars, factoryVars, updateVars, authVars, targetVars, stateVars, funderVars, opVars, appendVars>>

\* what the queries on contributions leave alone, and what the delays do
totalsRest == <<poolVars, clientVars, repoVars, delayVars, factoryVars, updateVars, authVars, targetVars, stateVars, funderVars, opVars, appendVars>>
delayRest == <<poolVars, clientVars, repoVars, totalsVars, factoryVars, updateVars, authVars, targetVars, stateVars, funderVars, opVars, appendVars>>
factoryRest == <<poolVars, clientVars, repoVars, totalsVars, delayVars, updateVars, authVars, targetVars, stateVars, funderVars, opVars, appendVars>>
updateRest == <<poolVars, clientVars, repoVars, totalsVars, delayVars, factoryVars, authVars, targetVars, stateVars, funderVars, opVars, appendVars>>
targetRest == <<poolVars, clientVars, repoVars, totalsVars, delayVars, factoryVars, updateVars, authVars, stateVars, funderVars, opVars, appendVars>>
stateRest == <<poolVars, clientVars, repoVars, totalsVars, delayVars, factoryVars, updateVars, authVars, targetVars, funderVars, opVars, appendVars>>
funderRest == <<poolVars, clientVars, repoVars, totalsVars, delayVars, factoryVars, updateVars, authVars, targetVars, stateVars, opVars, appendVars>>
opRest == <<poolVars, clientVars, repoVars, totalsVars, delayVars, factoryVars, updateVars, authVars, targetVars, stateVars, funderVars, appendVars>>
appendRest == <<poolVars, clientVars, repoVars, totalsVars, delayVars, factoryVars, updateVars, authVars, targetVars, stateVars, funderVars, opVars>>
authRest == <<poolVars, repoVars, totalsVars, delayVars, factoryVars, updateVars,
             targetVars, stateVars, funderVars, opVars, appendVars,
             credentials, max_retries, cpc, opName, script, attempt, calls, sleeps,
             skipped, result>>

vars == <<connections, in_use, lockOwner, ppc, held, polls,
          credentials, needsRefresh, max_retries, cpc, opName, script,
          attempt, calls, sleeps, skipped, result,
          sheet, now, cache, list_cache, rpc, rop, rloc, rcalls, rret, hist,
          model_class, grid_rows, spreadsheet_id,
          contributions, tpc, tquery, tanswer,
          retry_config, slept, delay,
          settings_id, factory, got,
          urow, ucache, upc, uloc,
          auth_lock, apc, refreshed,
          target_sheet, target_cache, tgpc, tgloc,
          state_sheet, state_cache, stpc, stloc, stret,
          funder_row, funder_cache, fpc, floc, fret,
          opc, oattempt, opending,
          remote_rows, crpc, crcall>>

(***************************************************************************)
(* ConnectionPool                                                          *)
(***************************************************************************)
Min(S) == CHOOSE x \in S : \A y \in S : x <= y

\* handles of self.connections that are not marked in use, in list order
AllHandles == {h \in 1 .. connections : TRUE}
IdleHandles == {h \in 1 .. connections : h \notin in_use}

PoolInit ==
    /\ connections = 0
    /\ in_use = {}
    /\ lockOwner = NoTask
    /\ ppc = [t \in Callers |-> "idle"]
    /\ held = [t \in Callers |-> NoHandle]
    /\ polls = 0

\* a caller enters get_connection while the lock is held: it queues at
\* `async with self._lock`
get_connection_blocked(t) ==
    /\ ppc[t] = "idle"
    /\ lockOwner # NoTask
    /\ ppc' = [ppc EXCEPT ![t] = "get_lock"]
    /\ UNCHANGED <<connections, in_use, lockOwner, held, polls, clientVars, repoVars, auxVars>>

\* the pool may still build a handle
UnderLimit_inclusive == connections <= MaxConnections
UnderLimit == connections < MaxConnections

\* the wait loop's condition
PoolExhausted == Cardinality(in_use) >= MaxConnections

\* get_connection, called with the lock free or resumed when it is freed (an
\* uncontended asyncio.Lock is taken without suspending): reuse the first
\* idle handle, else build one if under the limit (build may raise), else
\* enter the wait loop, still inside `async with self._lock`
get_connection(t) ==
    /\ ppc[t] \in {"idle", "get_lock"}
    /\ lockOwner = NoTask
    /\ IF IdleHandles # {}
       THEN /\ in_use' = in_use \cup {Min(IdleHandles)}
            /\ held' = [held EXCEPT ![t] = Min(IdleHandles)]
            /\ ppc' = [ppc EXCEPT ![t] = "holding"]
            /\ UNCHANGED <<connections, lockOwner, polls, clientVars, repoVars, auxVars>>
       ELSE IF UnderLimit
       THEN \E built \in BOOLEAN :
              IF built
              THEN /\ connections' = connections + 1
                   /\ in_use' = in_use \cup {connections + 1}
                   /\ held' = [held EXCEPT ![t] = connections + 1]
                   /\ ppc' = [ppc EXCEPT ![t] = "holding"]
                   /\ UNCHANGED <<lockOwner, polls, clientVars, repoVars, auxVars>>
              ELSE /\ ppc' = [ppc EXCEPT ![t] = "idle"]
                   /\ UNCHANGED <<connections, in_use, lockOwner, held, polls, clientVars, repoVars, auxVars>>
       ELSE /\ lockOwner' = t
            /\ ppc' = [ppc EXCEPT ![t] = "polling"]
            /\ UNCHANGED <<connections, in_use, held, polls, clientVars, repoVars, auxVars>>

\* one turn of `while len(self.in_use) >= self.max_connections: sleep(0.1)`,
\* run with the lock held; when the loop ends the method calls itself, which
\* waits for the lock its own frame still holds
wait_for_connection(t) ==
    /\ ppc[t] = "polling"
    /\ IF PoolExhausted
       THEN /\ polls' = IF polls < MaxPolls THEN polls + 1 ELSE polls
            /\ UNCHANGED <<connections, in_use, lockOwner, ppc, held, clientVars, repoVars, auxVars>>
       ELSE /\ ppc' = [ppc EXCEPT ![t] = "get_lock"]
            /\ UNCHANGED <<connections, in_use, lockOwner, held, polls, clientVars, repoVars, auxVars>>

\* a holder enters release_connection while the lock is held: it queues at
\* `async with self._lock`
release_connection_blocked(t) ==
    /\ ppc[t] = "holding"
    /\ lockOwner # NoTask
    /\ ppc' = [ppc EXCEPT ![t] = "rel_lock"]
    /\ UNCHANGED <<connections, in_use, lockOwner, held, polls, clientVars, repoVars, auxVars>>

\* release_connection, called with the lock free or resumed when it is freed
release_connection(t) ==
    /\ ppc[t] \in {"holding", "rel_lock"}
    /\ lockOwner = NoTask
    /\ in_use' = IF held[t] \in in_use THEN in_use \ {held[t]} ELSE in_use
    /\ held' = [held EXCEPT ![t] = NoHandle]
    /\ ppc' = [ppc EXCEPT ![t] = "idle"]
    /\ UNCHANGED <<connections, lockOwner, polls, clientVars, repoVars, auxVars>>

(***************************************************************************)
(* SheetsClient: authentication, the retry loop and the six operations     *)
(***************************************************************************)
\* RetryConfig.max_retries as shipped; configurations 0..DefaultMaxRetries
DefaultMaxRetries == 3

\* the operations that wrap their remote call in _execute_with_retry
ClientOps == {"read_range", "write_range", "append_rows", "clear_range",
              "batch_update", "get_spreadsheet_metadata"}

\* what one invocation of the remote call (.execute()) can do: return, raise
\* HttpError with a status and a message that may hold quota/rate wording,
\* or raise another exception
Ok == [kind |-> "ok", status |-> 200, quota |-> FALSE]
HttpError(status, quota) == [kind |-> "http", status |-> status, quota |-> quota]
OtherException == [kind |-> "exc", status |-> 0, quota |-> FALSE]

Outcomes == {Ok, OtherException,
             HttpError(401, FALSE), HttpError(403, TRUE), HttpError(403, FALSE),
             HttpError(429, TRUE), HttpError(500, FALSE)}

\* scripts of the remote call for one operation: one outcome per invocation
Scripts(n) == [1 .. n -> Outcomes]

NoResult == [kind |-> "none", exc |-> "none", call |-> 0]
Returned(i) == [kind |-> "value", exc |-> "none", call |-> i]
Raised(e) == [kind |-> "error", exc |-> e, call |-> 0]

SheetsErrors == {"SheetsAuthError", "SheetsRateLimitError",
                 "SheetsConnectionError", "SheetsError"}

\* _ensure_authenticated: raises without credentials; refreshes credentials
\* that need it, and raises when the refresh fails
ensure_authenticated_lenient(refreshOk) ==
    IF credentials # "none" /\ needsRefresh
    THEN (IF refreshOk THEN "refreshed" ELSE "raise")
    ELSE "pass"
ensure_authenticated(refreshOk) ==
    IF credentials = "none" THEN "raise"
    ELSE IF needsRefresh
         THEN (IF refreshOk THEN "refreshed" ELSE "raise")
         ELSE "pass"

\* `attempt < self.retry_config.max_retries`
can_retry_one_less(att) == att < max_retries - 1
can_retry(att) == att < max_retries

Retry == [do |-> "retry", exc |-> "none", drop |-> FALSE]
Raise(e, dropCredentials) == [do |-> "raise", exc |-> e, drop |-> dropCredentials]

\* 401: the credentials are dropped and the error is raised at once
on_unauthorized_retried == Retry
on_unauthorized == Raise("SheetsAuthError", TRUE)

\* 403 whose message holds "quota" or "rate"
on_rate_limit_as_permission(att) == Raise("SheetsError", FALSE)
on_rate_limit(att) ==
    IF can_retry(att) THEN Retry ELSE Raise("SheetsRateLimitError", FALSE)

\* any other 403
on_permission_denied == Raise("SheetsError", FALSE)

\* status >= 500
on_server_error(att) ==
    IF can_retry(att) THEN Retry ELSE Raise("SheetsConnectionError", FALSE)

\* every other HttpError
on_other_http_retried == Retry
on_other_http_unwrapped == Raise("HttpError", FALSE)
on_other_http == Raise("SheetsError", FALSE)

\* the except clause for HttpError
handle_http_error(o, att) ==
    IF o.status = 401 THEN on_unauthorized
    ELSE IF o.status = 403
    THEN (IF o.quota THEN on_rate_limit(att) ELSE on_permission_denied)
    ELSE IF o.status >= 500 THEN on_server_error(att)
    ELSE on_other_http

\* the except clause for any other exception
handle_exception_no_retry(att) == Raise("SheetsConnectionError", FALSE)
handle_exception(att) ==
    IF can_retry(att) THEN Retry ELSE Raise("SheetsConnectionError", FALSE)

handle_failure(o, att) ==
    IF o.kind = "http" THEN handle_http_error(o, att) ELSE handle_exception(att)

ClientInit ==
    /\ credentials \in {"set", "none"}
    /\ needsRefresh = FALSE
    /\ max_retries \in 0 .. DefaultMaxRetries
    /\ cpc = "idle"
    /\ opName = "none"
    /\ script = << >>
    /\ attempt = 0
    /\ calls = 0
    /\ sleeps = 0
    /\ skipped = 0
    /\ result = NoResult

\* the client as the pool's own callers leave it: constructed, no operation
ClientQuiet ==
    /\ ClientInit
    /\ credentials = "set"
    /\ max_retries = DefaultMaxRetries

\* a caller invokes one of the six operations; the loop starts at attempt 0
start_operation ==
    /\ cpc = "idle"
    /\ \E name \in ClientOps, sc \in Scripts(max_retries + 1) :
         /\ opName' = name
         /\ script' = sc
    /\ cpc' = "attempt"
    /\ attempt' = 0
    /\ calls' = 0
    /\ sleeps' = 0
    /\ skipped' = 0
    /\ result' = NoResult
    /\ UNCHANGED <<credentials, needsRefresh, max_retries, poolVars, repoVars, auxVars>>

\* one pass of the loop body: _ensure_authenticated, then the operation
\* (_get_service, the remote call, _release_service in its finally), then the
\* except clauses.  No suspension point lies between these while the pool
\* lock is free, so the pass is one step.
execute_attempt ==
    /\ cpc = "attempt"
    /\ lockOwner = NoTask
    /\ IdleHandles # {} \/ UnderLimit
    /\ \E refreshOk \in BOOLEAN, built \in BOOLEAN :
         LET auth == ensure_authenticated(refreshOk)
             builds == auth # "raise" /\ IdleHandles = {} /\ built
             reached == auth # "raise" /\ (IdleHandles # {} \/ built)
             o == IF reached THEN script[calls + 1] ELSE OtherException
             h == handle_failure(o, attempt)
         IN  /\ needsRefresh' = IF auth = "refreshed" THEN FALSE ELSE needsRefresh
             /\ connections' = IF builds THEN connections + 1 ELSE connections
             /\ calls' = IF reached THEN calls + 1 ELSE calls
             /\ skipped' = IF reached THEN skipped ELSE skipped + 1
             /\ IF o.kind = "ok"
                THEN /\ cpc' = "returned"
                     /\ result' = Returned(calls + 1)
                     /\ UNCHANGED credentials
                ELSE IF h.do = "retry"
                THEN /\ cpc' = "backoff"
                     /\ UNCHANGED <<result, credentials>>
                ELSE /\ cpc' = "raised"
                     /\ result' = Raised(h.exc)
                     /\ credentials' = IF h.drop THEN "none" ELSE credentials
    /\ UNCHANGED <<in_use, lockOwner, ppc, held, polls, repoVars, auxVars>>
    /\ UNCHANGED <<max_retries, opName, script, attempt, sleeps>>

\* `await asyncio.sleep(delay); continue`: the next value of
\* range(max_retries + 1), or the raise after the loop when it is exhausted
backoff_sleep ==
    /\ cpc = "backoff"
    /\ sleeps' = sleeps + 1
    /\ IF attempt + 1 <= max_retries
       THEN /\ attempt' = attempt + 1
            /\ cpc' = "attempt"
            /\ UNCHANGED result
       ELSE /\ cpc' = "raised"
            /\ result' = Raised("SheetsConnectionError")
            /\ UNCHANGED attempt
    /\ UNCHANGED <<credentials, needsRefresh, max_retries, opName, script,
                   calls, skipped, poolVars, repoVars, auxVars>>

\* the caller takes the result; the client is ready for the next operation
finish_operation ==
    /\ cpc \in {"returned", "raised"}
    /\ cpc' = "idle"
    /\ opName' = "none"
    /\ script' = << >>
    /\ attempt' = 0
    /\ calls' = 0
    /\ sleeps' = 0
    /\ skipped' = 0
    /\ result' = NoResult
    /\ UNCHANGED <<credentials, needsRefresh, max_retries, poolVars, repoVars, auxVars>>

\* the task that runs health_check, as an owner of the pool's lock
HealthTask == MaxConnections + 3

HealthResult(b) == [kind |-> IF b THEN "true" ELSE "false", exc |-> "none", call |-> 0]

\* SheetsClient.health_check up to its first suspension point.
\* _ensure_authenticated, then _get_service (which authenticates again and
\* asks the pool for a handle), then _release_service; any exception is
\* caught and makes the result False.  While the pool's lock is free and a
\* handle is idle or can be built, nothing suspends and the handle taken is
\* released in the same step.  Otherwise the method waits: at the pool's lock
\* when another task holds it, or in the pool's wait loop, holding the lock
\* itself, when every handle is in use.
health_check ==
    /\ cpc = "idle"
    /\ opName' = "health_check"
    /\ \E refreshOk \in BOOLEAN, built \in BOOLEAN :
         LET auth == ensure_authenticated(refreshOk)
         IN  /\ needsRefresh' = IF auth = "refreshed" THEN FALSE ELSE needsRefresh
             /\ IF auth = "raise"
                THEN /\ cpc' = "returned"
                     /\ result' = HealthResult(FALSE)
                     /\ skipped' = 1
                     /\ UNCHANGED <<connections, lockOwner>>
                ELSE IF lockOwner # NoTask
                THEN /\ cpc' = "health:get_lock"
                     /\ UNCHANGED <<result, skipped, connections, lockOwner>>
                ELSE IF IdleHandles # {}
                THEN /\ cpc' = "returned"
                     /\ result' = HealthResult(TRUE)
                     /\ UNCHANGED <<skipped, connections, lockOwner>>
                ELSE IF UnderLimit
                THEN /\ cpc' = "returned"
                     /\ result' = HealthResult(built)
                     /\ skipped' = IF built THEN skipped ELSE 1
                     /\ connections' = IF built THEN connections + 1 ELSE connections
                     /\ UNCHANGED lockOwner
                ELSE /\ cpc' = "health:polling"
                     /\ lockOwner' = HealthTask
                     /\ UNCHANGED <<result, skipped, connections>>
    /\ UNCHANGED <<in_use, ppc, held, polls, repoVars, auxVars>>
    /\ UNCHANGED <<credentials, max_retries, script, attempt, calls, sleeps>>

\* one turn of the pool's wait loop run by health_check; when the loop ends
\* get_connection calls itself and waits for the lock its own frame holds
health_check_wait ==
    /\ cpc = "health:polling"
    /\ IF PoolExhausted
       THEN /\ polls' = IF polls < MaxPolls THEN polls + 1 ELSE polls
            /\ UNCHANGED cpc
       ELSE /\ cpc' = "health:get_lock"
            /\ UNCHANGED polls
    /\ UNCHANGED <<connections, in_use, lockOwner, ppc, held, repoVars, auxVars>>
    /\ UNCHANGED <<credentials, needsRefresh, max_retries, opName, script, attempt,
                   calls, sleeps, skipped, result>>

\* time passes: the token expires, or 50 minutes go by since the last refresh
credentials_expire ==
    /\ credentials = "set"
    /\ ~needsRefresh
    /\ needsRefresh' = TRUE
    /\ UNCHANGED <<credentials, max_retries, cpc, opName, script, attempt,
                   calls, sleeps, skipped, result, poolVars, repoVars, auxVars>>

(***************************************************************************)
(* BaseRepository: the TTL cache and the CRUD operations over one sheet    *)
(***************************************************************************)
\* data rows the sheet may hold
MaxRows == 1
\* ticks of the clock
MaxTime == 2
\* cache_ttl, in ticks
CacheTtl == 1
\* data rows of the tables a repository is started on in SpecTable
TableRows == 3

\* callers of one repository instance; SpecRepo runs the first one alone
RepoCallers == {1, 2}
Sequential == {1}

Ids == {"a", "b"}
Names == {"x", "y"}
NoEntity == [id |-> "", name |-> ""]
\* entities that pass the model class's validation: the name is not empty
Entities == [id : Ids, name : Names]
\* what callers may hand to create and batch_create
CreateInputs == [id : Ids, name : {"x"}] \cup {[id |-> "a", name |-> ""]}
BatchInputs == UNION {[1 .. n -> CreateInputs] : n \in 0 .. 2}
\* the model class's validation (Field(min_length=1))
is_valid_any(e) == TRUE
is_valid(e) == e.name # ""

\* the row codec of a two-column entity: _get_headers, _model_to_row and
\* _row_to_model, which raises on an empty name cell
Headers == <<"id", "name">>
model_to_row(e) == <<e.id, e.name>>
row_to_model(row) ==
    IF row[2] = "" THEN NoEntity ELSE [id |-> row[1], name |-> row[2]]

Max(a, b) == IF a >= b THEN a ELSE b

\* `row + [''] * (len(headers) - len(row))`
pad_row(row) == row \o [i \in 1 .. Max(0, Len(Headers) - Len(row)) |-> ""]
parses_all(row) == TRUE
parses(row) == row_to_model(pad_row(row)) # NoEntity

\* `values[1:] if values and len(values) > 0 else []`
data_rows(values) == IF Len(values) > 0 THEN Tail(values) ELSE << >>

\* the loop of get_all over the data rows: rows that fail to parse are skipped
parse_rows(values) ==
    LET good == SelectSeq(data_rows(values), parses)
    IN  [i \in 1 .. Len(good) |-> row_to_model(pad_row(good[i]))]

\* the sheet as the store keeps it: empty rows at the end do not exist
RECURSIVE trim(_)
trim(rows) ==
    IF Len(rows) > 0 /\ rows[Len(rows)] = << >>
    THEN trim(SubSeq(rows, 1, Len(rows) - 1))
    ELSE rows

\* values().update on A{n}:Z{n}, and values().clear on it
set_row(rows, n, row) ==
    trim([i \in 1 .. Max(Len(rows), n) |->
            IF i = n THEN row ELSE IF i <= Len(rows) THEN rows[i] ELSE << >>])

\* values().append: the rows go below the last row of the table
append_rows_first(rows, new) == rows \o (IF Len(new) > 0 THEN <<new[1]>> ELSE << >>)
append_rows(rows, new) == rows \o new

\* CacheEntry and is_expired
NoEntry == [present |-> FALSE, data |-> NoEntity, expires_at |-> 0]
NoListEntry == [present |-> FALSE, data |-> << >>, expires_at |-> 0]
CacheEntry(data, time) == [present |-> TRUE, data |-> data, expires_at |-> time + CacheTtl]
is_expired_inclusive(entry, time) == time >= entry.expires_at
is_expired_late(entry, time) == time > entry.expires_at + 1
is_expired(entry, time) == time > entry.expires_at

\* _get_list_from_cache and _get_from_cache: a hit, or else the entry is gone
list_hit == list_cache.present /\ ~is_expired(list_cache, now)
id_hit(id) == cache[id].present /\ ~is_expired(cache[id], now)
drop_id(c, id) == [c EXCEPT ![id] = NoEntry]

\* _invalidate_cache(entity_id) and _invalidate_cache()
list_cache_kept == list_cache
invalidated_list == NoListEntry
invalidate_id(id) == drop_id(cache, id)
invalidate_all == [i \in Ids |-> NoEntry]

\* the entity types: every model has an `id` field but StateModel, whose key
\* field is `code` (it is the first column of its rows all the same)
ModelClasses == {"Funder", "Contribution", "StateTarget", "Prospect", "State", "School"}
has_id == model_class # "State"
\* getattr(entity, 'id', None)
None == "None"
entity_id(e) == IF has_id THEN e.id ELSE None

\* the scan `for i, entity in enumerate(entities):
\*              if getattr(entity, 'id', None) == entity_id`
find_index_first(entities, id) == IF Len(entities) > 0 THEN 1 ELSE 0
find_index(entities, id) ==
    IF \E i \in 1 .. Len(entities) : entity_id(entities[i]) = id
    THEN Min({i \in 1 .. Len(entities) : entity_id(entities[i]) = id})
    ELSE 0

\* what a repository method hands back
Ret(kind, list, entity, exc) ==
    [kind |-> kind, list |-> list, entity |-> entity, exc |-> exc]
NoRet == Ret("none", << >>, NoEntity, "none")
RetList(l) == Ret("list", l, NoEntity, "none")
RetEntity(e) == Ret("entity", << >>, e, "none")
RetAbsent == Ret("absent", << >>, NoEntity, "none")
RetBool(b) == Ret(IF b THEN "true" ELSE "false", << >>, NoEntity, "none")
RetError(e) == Ret("error", << >>, NoEntity, e)

Call(name, id, entity, batch) ==
    [name |-> name, id |-> id, entity |-> entity, batch |-> batch]
NoCall == Call("none", "", NoEntity, << >>)
NoLocals == [entity |-> NoEntity, row |-> 0]
NoCalls == [read |-> 0, write |-> 0, append |-> 0, clear |-> 0]

\* a client call ends with a result or with one of the client's errors
\* what a client call of the repository ends in; without a spreadsheet id
\* the remote call cannot succeed
ClientResults ==
    IF spreadsheet_id = "set" THEN {"ok"} \cup SheetsErrors ELSE SheetsErrors

Mutators == {"create", "batch_create", "update", "delete", "clear_cache"}

\* the call did what it was asked to
succeeded(name, ret) ==
    IF name \in {"create", "update"} THEN ret.kind = "entity"
    ELSE IF name = "batch_create" THEN ret.kind = "list"
    ELSE IF name = "delete" THEN ret.kind = "true"
    ELSE ret.kind # "error"

(***************************************************************************)
(* History of completed calls                                              *)
(*   prev   the last get_all that returned, unless a mutator was called    *)
(*          since: its list, its read_range calls, its entry's expiry      *)
(*   pair   set when a get_all returns that was called while prev stood    *)
(*          and the TTL window of its entry was open                       *)
(*   last   the call that has just returned                                *)
(*   wrote  the last completed call, if it was a mutator that succeeded    *)
(*   before for a get_all that has just returned: wrote, as it was when    *)
(*          the get_all was called                                         *)
(*   evicted the get_all or get_by_id in progress or just returned found   *)
(*          an expired entry where it looked                               *)
(*   known  FALSE while an update or delete is in progress, or has just    *)
(*          returned, whose id was neither in the table nor in the cache   *)
(*          when it was called, nobody else having edited the sheet since  *)
(*   created the entity of the last create that succeeded, if its id was   *)
(*          not in the table before and nothing has written to the table   *)
(*          since                                                          *)
(*   gone   the id of the update that has just returned absent, or of the  *)
(*          delete that has just returned False, kept until the call that  *)
(*          follows it has returned                                        *)
(***************************************************************************)
NoPrev == [valid |-> FALSE, list |-> << >>, reads |-> 0, expires |-> 0]
NoPair == [seen |-> FALSE, first |-> << >>, firstReads |-> 0,
           second |-> << >>, secondReads |-> 0]
NoDone == [name |-> "none", ok |-> FALSE, id |-> "", n |-> 0]
NoWrite == [name |-> "none", n |-> 0]

NoHist == [prev |-> NoPrev, pair |-> NoPair, last |-> NoDone,
           wrote |-> NoWrite, before |-> NoWrite, created |-> NoEntity,
           evicted |-> FALSE, known |-> TRUE, gone |-> "",
           health |-> "none", metadata |-> "none"]

\* some row of the table has `id` in its identifier cell
in_table(rows, id) ==
    \E n \in 2 .. Len(rows) : Len(rows[n]) > 0 /\ rows[n][1] = id

\* a mutator ends the run of get_all calls; so does a get_all called after
\* the entry of the one before has expired
HistAtStart(name) ==
    [hist EXCEPT !.prev = IF name \in Mutators THEN NoPrev
                          ELSE IF name = "get_all" /\ now > @.expires THEN NoPrev
                          ELSE @,
                 !.evicted = name = "get_all" /\ list_cache.present
                             /\ now > list_cache.expires_at,
                 !.known = TRUE]

\* `id` is in the per-id cache or in the cached list
in_cache(id) ==
    \/ cache[id].present
    \/ list_cache.present
         /\ \E i \in 1 .. Len(list_cache.data) : list_cache.data[i].id = id

HistAtStartFor(name, id) ==
    [HistAtStart(name) EXCEPT
        !.evicted = name = "get_by_id" /\ cache[id].present
                    /\ now > cache[id].expires_at,
        !.known = name \in {"update", "delete"} => (in_table(sheet, id) \/ in_cache(id))]

HistAtFinish(h, call, ret, reads, lc) ==
    [h EXCEPT
       !.last = [name |-> call.name, ok |-> succeeded(call.name, ret),
                 id |-> call.id, n |-> Len(call.batch)],
       !.wrote = IF call.name \in Mutators \ {"clear_cache"} /\ succeeded(call.name, ret)
                 THEN [name |-> call.name, n |-> Len(call.batch)]
                 ELSE NoWrite,
       !.before = IF call.name = "get_all" THEN h.wrote ELSE NoWrite,
       !.created = IF call.name = "create" /\ ret.kind = "entity"
                      /\ ~in_table(sheet, call.id)
                   THEN call.entity
                   ELSE IF call.name \in Mutators \ {"clear_cache"} THEN NoEntity
                   ELSE @,
       !.prev = IF call.name # "get_all" THEN @
                ELSE IF ret.kind = "list"
                THEN [valid |-> TRUE, list |-> ret.list, reads |-> reads,
                      expires |-> lc.expires_at]
                ELSE NoPrev,
       !.pair = IF call.name = "get_all" /\ ret.kind = "list"
                   /\ h.prev.valid
                THEN [seen |-> TRUE, first |-> h.prev.list,
                      firstReads |-> h.prev.reads,
                      second |-> ret.list, secondReads |-> reads]
                ELSE NoPair,
       !.gone = IF call.name = "update" /\ ret.kind = "absent" THEN call.id
                ELSE IF call.name = "delete" /\ ret.kind = "false" THEN call.id
                ELSE IF call.name = "get_by_id" THEN @
                ELSE ""]

HistAtReturn ==
    [hist EXCEPT !.last = NoDone, !.before = NoWrite, !.pair = NoPair,
                 !.evicted = FALSE, !.known = TRUE,
                 !.gone = IF hist.last.name \in {"update", "delete"} THEN @ ELSE "",
                 !.health = "none", !.metadata = "none"]

\* a repository just constructed over a sheet that holds `table`, with or
\* without a spreadsheet id
RepoStartWith(table, class, rows, sid) ==
    /\ sheet = table
    /\ spreadsheet_id = sid
    /\ model_class = class
    /\ grid_rows = rows
    /\ now = 0
    /\ cache = [i \in Ids |-> NoEntry]
    /\ list_cache = NoListEntry
    /\ rpc = [t \in RepoCallers |-> "idle"]
    /\ rop = [t \in RepoCallers |-> NoCall]
    /\ rloc = [t \in RepoCallers |-> NoLocals]
    /\ rcalls = [t \in RepoCallers |-> NoCalls]
    /\ rret = [t \in RepoCallers |-> NoRet]
    /\ hist = NoHist

RepoStart(table, class, rows) == RepoStartWith(table, class, rows, "set")

RepoInit == RepoStart(<<Headers>>, "Funder", MaxRows)

\* the method returns or raises: h is the history so far, lc the list cache
\* as the method leaves it
Finish(t, h, call, ret, made, lc) ==
    /\ rpc' = [rpc EXCEPT ![t] = "done"]
    /\ rop' = [rop EXCEPT ![t] = NoCall]
    /\ rloc' = [rloc EXCEPT ![t] = NoLocals]
    /\ rcalls' = [rcalls EXCEPT ![t] = made]
    /\ rret' = [rret EXCEPT ![t] = ret]
    /\ hist' = HistAtFinish(h, call, ret, made.read, lc)

\* the method suspends in a client call
Suspend(t, h, pc, call, locals, made) ==
    /\ rpc' = [rpc EXCEPT ![t] = pc]
    /\ rop' = [rop EXCEPT ![t] = call]
    /\ rloc' = [rloc EXCEPT ![t] = locals]
    /\ rcalls' = [rcalls EXCEPT ![t] = made]
    /\ rret' = [rret EXCEPT ![t] = NoRet]
    /\ hist' = h

OneMore(made, kind) == [made EXCEPT ![kind] = @ + 1]

\* get_all(): a list-cache hit returns the cached list; otherwise the entry
\* is dropped and read_range is called
get_all_call(t) ==
    /\ rpc[t] = "idle"
    /\ LET call == Call("get_all", "", NoEntity, << >>)
           h == HistAtStart("get_all")
       IN  IF list_hit
           THEN /\ Finish(t, h, call, RetList(list_cache.data), NoCalls, list_cache)
                /\ UNCHANGED list_cache
           ELSE /\ Suspend(t, h, "get_all:read", call, NoLocals, OneMore(NoCalls, "read"))
                /\ list_cache' = NoListEntry
    /\ UNCHANGED <<sheet, now, cache, model_class, grid_rows, spreadsheet_id,
                   poolVars, clientVars, auxVars>>

\* read_range ends: the rows are parsed, the list is cached and returned
get_all_read(t) ==
    /\ rpc[t] = "get_all:read"
    /\ \E res \in ClientResults :
         IF res = "ok"
         THEN LET entities == parse_rows(sheet)
                  lc == CacheEntry(entities, now)
              IN  /\ list_cache' = lc
                  /\ Finish(t, hist, rop[t], RetList(entities), rcalls[t], lc)
         ELSE /\ Finish(t, hist, rop[t], RetError(res), rcalls[t], list_cache)
              /\ UNCHANGED list_cache
    /\ UNCHANGED <<sheet, now, cache, model_class, grid_rows, spreadsheet_id,
                   poolVars, clientVars, auxVars>>

\* the tail of get_by_id: scan the list, cache the entity found
get_by_id_scan(t, h, call, entities, c, lc, made) ==
    LET idx == find_index(entities, call.id)
    IN  /\ list_cache' = lc
        /\ IF idx > 0
           THEN /\ cache' = [c EXCEPT ![call.id] = CacheEntry(entities[idx], now)]
                /\ Finish(t, h, call, RetEntity(entities[idx]), made, lc)
           ELSE /\ cache' = c
                /\ Finish(t, h, call, RetAbsent, made, lc)

\* get_by_id(id): a per-id hit returns the cached entity; otherwise the entry
\* is dropped and get_all() supplies the list to scan
get_by_id_call(t) ==
    /\ rpc[t] = "idle"
    /\ \E id \in Ids :
         LET call == Call("get_by_id", id, NoEntity, << >>)
             h == HistAtStartFor("get_by_id", id)
         IN  IF id_hit(id)
             THEN /\ Finish(t, h, call, RetEntity(cache[id].data), NoCalls, list_cache)
                  /\ UNCHANGED <<cache, list_cache>>
             ELSE IF list_hit
             THEN get_by_id_scan(t, h, call, list_cache.data,
                                 drop_id(cache, id), list_cache, NoCalls)
             ELSE /\ Suspend(t, h, "get_by_id:read", call, NoLocals,
                             OneMore(NoCalls, "read"))
                  /\ cache' = drop_id(cache, id)
                  /\ list_cache' = NoListEntry
    /\ UNCHANGED <<sheet, now, model_class, grid_rows, spreadsheet_id,
                   poolVars, clientVars, auxVars>>

get_by_id_read(t) ==
    /\ rpc[t] = "get_by_id:read"
    /\ \E res \in ClientResults :
         IF res = "ok"
         THEN LET entities == parse_rows(sheet)
              IN  get_by_id_scan(t, hist, rop[t], entities, cache,
                                 CacheEntry(entities, now), rcalls[t])
         ELSE /\ Finish(t, hist, rop[t], RetError(res), rcalls[t], list_cache)
              /\ UNCHANGED <<cache, list_cache>>
    /\ UNCHANGED <<sheet, now, model_class, grid_rows, spreadsheet_id,
                   poolVars, clientVars, auxVars>>

\* create(entity): validation, then append_rows is called
create_call(t) ==
    /\ rpc[t] = "idle"
    /\ Len(sheet) < grid_rows + 1
    /\ \E e \in CreateInputs :
         LET call == Call("create", e.id, e, << >>)
             h == HistAtStart("create")
         IN  IF is_valid(e)
             THEN Suspend(t, h, "create:append", call, NoLocals, OneMore(NoCalls, "append"))
             ELSE Finish(t, h, call, RetError("ValueError"), NoCalls, list_cache)
    /\ UNCHANGED <<sheet, now, cache, list_cache, model_class, grid_rows, spreadsheet_id,
                   poolVars, clientVars, auxVars>>

\* append_rows ends: the caches are invalidated and the entity is returned
create_append(t) ==
    /\ rpc[t] = "create:append"
    /\ \E res \in ClientResults :
         IF res = "ok"
         THEN /\ sheet' = append_rows(sheet, <<model_to_row(rop[t].entity)>>)
              /\ cache' = invalidate_all
              /\ list_cache' = invalidated_list
              /\ Finish(t, hist, rop[t], RetEntity(rop[t].entity), rcalls[t],
                        invalidated_list)
         ELSE /\ Finish(t, hist, rop[t], RetError(res), rcalls[t], list_cache)
              /\ UNCHANGED <<sheet, cache, list_cache>>
    /\ UNCHANGED <<now, model_class, grid_rows, spreadsheet_id,
                   poolVars, clientVars, auxVars>>

\* batch_create(entities): an empty list is returned at once; otherwise all
\* entities are validated and one append_rows is called
batch_create_call(t) ==
    /\ rpc[t] = "idle"
    /\ \E es \in BatchInputs :
         LET call == Call("batch_create", "", NoEntity, es)
             h == HistAtStart("batch_create")
         IN  /\ Len(sheet) + Len(es) <= grid_rows + 1
             /\ IF Len(es) = 0
                THEN Finish(t, h, call, RetList(<< >>), NoCalls, list_cache)
                ELSE IF \A i \in 1 .. Len(es) : is_valid(es[i])
                THEN Suspend(t, h, "batch_create:append", call, NoLocals,
                             OneMore(NoCalls, "append"))
                ELSE Finish(t, h, call, RetError("ValueError"), NoCalls, list_cache)
    /\ UNCHANGED <<sheet, now, cache, list_cache, model_class, grid_rows, spreadsheet_id,
                   poolVars, clientVars, auxVars>>

batch_create_append(t) ==
    /\ rpc[t] = "batch_create:append"
    /\ \E res \in ClientResults :
         IF res = "ok"
         THEN LET es == rop[t].batch
              IN  /\ sheet' = append_rows(sheet, [i \in 1 .. Len(es) |-> model_to_row(es[i])])
                  /\ cache' = invalidate_all
                  /\ list_cache' = invalidated_list
                  /\ Finish(t, hist, rop[t], RetList(es), rcalls[t], invalidated_list)
         ELSE /\ Finish(t, hist, rop[t], RetError(res), rcalls[t], list_cache)
              /\ UNCHANGED <<sheet, cache, list_cache>>
    /\ UNCHANGED <<now, model_class, grid_rows, spreadsheet_id,
                   poolVars, clientVars, auxVars>>

\* update, from the second get_all() on: the list is scanned for the row,
\* and write_range is called on row i + 2
update_locate(t, h, call, updated, entities, c, lc, made) ==
    LET idx == find_index(entities, call.id)
    IN  /\ cache' = c
        /\ list_cache' = lc
        /\ IF idx > 0
           THEN Suspend(t, h, "update:write", call,
                        [entity |-> updated, row |-> idx + 1], OneMore(made, "write"))
           ELSE Finish(t, h, call, RetAbsent, made, lc)

\* update, once get_by_id has returned the current entity: the updates are
\* applied and validated, then get_all() is called again
update_found(t, h, call, current, c, lc, made) ==
    LET updated == [current EXCEPT !.name = call.entity.name]
    IN  IF ~is_valid(updated)
        THEN /\ cache' = c
             /\ list_cache' = lc
             /\ Finish(t, h, call, RetError("ValueError"), made, lc)
        ELSE IF lc.present /\ ~is_expired(lc, now)
        THEN update_locate(t, h, call, updated, lc.data, c, lc, made)
        ELSE /\ cache' = c
             /\ list_cache' = NoListEntry
             /\ Suspend(t, h, "update:read2", call,
                        [entity |-> updated, row |-> 0], OneMore(made, "read"))

\* update, when get_by_id has the list to scan
update_scan(t, h, call, entities, c, lc, made) ==
    LET idx == find_index(entities, call.id)
    IN  IF idx > 0
        THEN update_found(t, h, call, entities[idx],
                          [c EXCEPT ![call.id] = CacheEntry(entities[idx], now)], lc, made)
        ELSE /\ cache' = c
             /\ list_cache' = lc
             /\ Finish(t, h, call, RetAbsent, made, lc)

\* update(id, updates)
update_call(t) ==
    /\ rpc[t] = "idle"
    /\ \E id \in Ids, name \in Names \cup {""} :
         LET call == Call("update", id, [id |-> id, name |-> name], << >>)
             h == HistAtStartFor("update", id)
         IN  IF id_hit(id)
             THEN update_found(t, h, call, cache[id].data, cache, list_cache, NoCalls)
             ELSE IF list_hit
             THEN update_scan(t, h, call, list_cache.data, drop_id(cache, id),
                              list_cache, NoCalls)
             ELSE /\ cache' = drop_id(cache, id)
                  /\ list_cache' = NoListEntry
                  /\ Suspend(t, h, "update:read1", call, NoLocals,
                             OneMore(NoCalls, "read"))
    /\ UNCHANGED <<sheet, now, model_class, grid_rows, spreadsheet_id,
                   poolVars, clientVars, auxVars>>

\* the read_range of update's get_by_id ends
update_read1(t) ==
    /\ rpc[t] = "update:read1"
    /\ \E res \in ClientResults :
         IF res = "ok"
         THEN LET entities == parse_rows(sheet)
              IN  update_scan(t, hist, rop[t], entities, cache,
                              CacheEntry(entities, now), rcalls[t])
         ELSE /\ Finish(t, hist, rop[t], RetError(res), rcalls[t], list_cache)
              /\ UNCHANGED <<cache, list_cache>>
    /\ UNCHANGED <<sheet, now, model_class, grid_rows, spreadsheet_id,
                   poolVars, clientVars, auxVars>>

\* the read_range of update's own get_all ends
update_read2(t) ==
    /\ rpc[t] = "update:read2"
    /\ \E res \in ClientResults :
         IF res = "ok"
         THEN LET entities == parse_rows(sheet)
              IN  update_locate(t, hist, rop[t], rloc[t].entity, entities, cache,
                                CacheEntry(entities, now), rcalls[t])
         ELSE /\ Finish(t, hist, rop[t], RetError(res), rcalls[t], list_cache)
              /\ UNCHANGED <<cache, list_cache>>
    /\ UNCHANGED <<sheet, now, model_class, grid_rows, spreadsheet_id,
                   poolVars, clientVars, auxVars>>

\* write_range ends: the entity's entry and the list cache are invalidated
update_write(t) ==
    /\ rpc[t] = "update:write"
    /\ \E res \in ClientResults :
         IF res = "ok"
         THEN /\ sheet' = set_row(sheet, rloc[t].row, model_to_row(rloc[t].entity))
              /\ cache' = invalidate_id(rop[t].id)
              /\ list_cache' = invalidated_list
              /\ Finish(t, hist, rop[t], RetEntity(rloc[t].entity), rcalls[t],
                        invalidated_list)
         ELSE /\ Finish(t, hist, rop[t], RetError(res), rcalls[t], list_cache)
              /\ UNCHANGED <<sheet, cache, list_cache>>
    /\ UNCHANGED <<now, model_class, grid_rows, spreadsheet_id,
                   poolVars, clientVars, auxVars>>

\* delete, once get_all() has returned: clear_range is called on row i + 2
delete_locate(t, h, call, entities, lc, made) ==
    LET idx == find_index(entities, call.id)
    IN  /\ list_cache' = lc
        /\ IF idx > 0
           THEN Suspend(t, h, "delete:clear", call,
                        [entity |-> NoEntity, row |-> idx + 1], OneMore(made, "clear"))
           ELSE Finish(t, h, call, RetBool(FALSE), made, lc)

\* delete(id)
delete_call(t) ==
    /\ rpc[t] = "idle"
    /\ \E id \in Ids :
         LET call == Call("delete", id, NoEntity, << >>)
             h == HistAtStartFor("delete", id)
         IN  IF list_hit
             THEN delete_locate(t, h, call, list_cache.data, list_cache, NoCalls)
             ELSE /\ list_cache' = NoListEntry
                  /\ Suspend(t, h, "delete:read", call, NoLocals,
                             OneMore(NoCalls, "read"))
    /\ UNCHANGED <<sheet, now, cache, model_class, grid_rows, spreadsheet_id,
                   poolVars, clientVars, auxVars>>

delete_read(t) ==
    /\ rpc[t] = "delete:read"
    /\ \E res \in ClientResults :
         IF res = "ok"
         THEN LET entities == parse_rows(sheet)
              IN  delete_locate(t, hist, rop[t], entities,
                                CacheEntry(entities, now), rcalls[t])
         ELSE /\ Finish(t, hist, rop[t], RetError(res), rcalls[t], list_cache)
              /\ UNCHANGED list_cache
    /\ UNCHANGED <<sheet, now, cache, model_class, grid_rows, spreadsheet_id,
                   poolVars, clientVars, auxVars>>

\* clear_range ends: the entity's entry and the list cache are invalidated
delete_clear(t) ==
    /\ rpc[t] = "delete:clear"
    /\ \E res \in ClientResults :
         IF res = "ok"
         THEN /\ sheet' = set_row(sheet, rloc[t].row, << >>)
              /\ cache' = invalidate_id(rop[t].id)
              /\ list_cache' = invalidated_list
              /\ Finish(t, hist, rop[t], RetBool(TRUE), rcalls[t], invalidated_list)
         ELSE /\ Finish(t, hist, rop[t], RetError(res), rcalls[t], list_cache)
              /\ UNCHANGED <<sheet, cache, list_cache>>
    /\ UNCHANGED <<now, model_class, grid_rows, spreadsheet_id,
                   poolVars, clientVars, auxVars>>

\* clear_cache()
clear_cache(t) ==
    /\ rpc[t] = "idle"
    /\ cache' = invalidate_all
    /\ list_cache' = invalidated_list
    /\ Finish(t, HistAtStart("clear_cache"), Call("clear_cache", "", NoEntity, << >>),
              NoRet, NoCalls, invalidated_list)
    /\ UNCHANGED <<sheet, now, model_class, grid_rows, spreadsheet_id,
                   poolVars, clientVars, auxVars>>

\* BaseRepository.health_check(): the client's health check is awaited
repo_health_check_call(t) ==
    /\ rpc[t] = "idle"
    /\ Suspend(t, HistAtStart("health_check"), "health_check:client",
               Call("health_check", "", NoEntity, << >>), NoLocals, NoCalls)
    /\ UNCHANGED <<sheet, now, cache, list_cache, model_class, grid_rows, spreadsheet_id,
                   poolVars, clientVars, auxVars>>

\* the client's health check returns True or False (it never raises) and the
\* value is dropped; with a spreadsheet id the metadata is fetched next,
\* without one the method returns True
repo_health_check_client(t) ==
    /\ rpc[t] = "health_check:client"
    /\ \E healthy \in BOOLEAN :
         LET h == [hist EXCEPT !.health = IF healthy THEN "true" ELSE "false"]
         IN  IF spreadsheet_id = "set"
             THEN Suspend(t, h, "health_check:metadata", rop[t], NoLocals, rcalls[t])
             ELSE Finish(t, h, rop[t], RetBool(TRUE), rcalls[t], list_cache)
    /\ UNCHANGED <<sheet, now, cache, list_cache, model_class, grid_rows, spreadsheet_id,
                   poolVars, clientVars, auxVars>>

\* get_spreadsheet_metadata ends: True when it returned, False when it raised
repo_health_check_metadata(t) ==
    /\ rpc[t] = "health_check:metadata"
    /\ \E res \in ClientResults :
         Finish(t, [hist EXCEPT !.metadata = res], rop[t], RetBool(res = "ok"),
                rcalls[t], list_cache)
    /\ UNCHANGED <<sheet, now, cache, list_cache, model_class, grid_rows, spreadsheet_id,
                   poolVars, clientVars, auxVars>>

\* the caller takes the result and is free to call again
return_to_caller(t) ==
    /\ rpc[t] = "done"
    /\ rpc' = [rpc EXCEPT ![t] = "idle"]
    /\ rcalls' = [rcalls EXCEPT ![t] = NoCalls]
    /\ rret' = [rret EXCEPT ![t] = NoRet]
    /\ hist' = HistAtReturn
    /\ UNCHANGED <<sheet, now, cache, list_cache, rop, rloc, model_class, grid_rows, spreadsheet_id,
                   poolVars, clientVars, auxVars>>

\* the caller changes a field of an entity it was handed. The caches hold the
\* very objects they hand out (return entry.data, return self._list_cache.data,
\* and get_all returns the list it has just cached), so the change shows in
\* every place that holds the object:
\*   - after a get_by_id that read the sheet, the entity returned is the
\*     per-id entry's and the element of the cached list it was found at;
\*   - after a get_all, the list returned is the cached list; an element is
\*     changed only when no per-id entry exists for its id, so that no other
\*     holder of the object is in doubt.
renamed(e, name) == [e EXCEPT !.name = name]

mutate_returned(t) ==
    /\ rpc[t] = "done"
    /\ list_cache.present
    /\ \/ /\ hist.last.name = "get_by_id"
          /\ rret[t].kind = "entity"
          /\ rcalls[t].read = 1
          /\ LET e == rret[t].entity
                 idx == find_index(list_cache.data, e.id)
             IN  \E name \in Names \ {e.name} :
                   /\ rret' = [rret EXCEPT ![t] = RetEntity(renamed(e, name))]
                   /\ cache' = [cache EXCEPT ![e.id].data = renamed(e, name)]
                   /\ list_cache' = [list_cache EXCEPT !.data[idx] = renamed(e, name)]
       \/ /\ hist.last.name = "get_all"
          /\ rret[t].kind = "list"
          /\ rret[t].list = list_cache.data
          /\ \E i \in 1 .. Len(rret[t].list) :
               LET e == rret[t].list[i]
               IN  /\ ~cache[e.id].present
                   /\ \E name \in Names \ {e.name} :
                        /\ rret' = [rret EXCEPT ![t] = RetList([rret[t].list EXCEPT
                                                                ![i] = renamed(e, name)])]
                        /\ list_cache' = [list_cache EXCEPT !.data[i] = renamed(e, name)]
                        /\ UNCHANGED cache
    /\ hist' = [hist EXCEPT !.last.name = "mutate", !.prev = NoPrev, !.pair = NoPair]
    /\ UNCHANGED <<sheet, now, rpc, rop, rloc, rcalls, model_class, grid_rows, spreadsheet_id,
                   poolVars, clientVars, auxVars>>

\* the clock moves on
tick ==
    /\ now < MaxTime
    /\ now' = now + 1
    /\ UNCHANGED <<sheet, cache, list_cache, rpc, rop, rloc, rcalls, rret, hist,
                   model_class, grid_rows, spreadsheet_id,
                   poolVars, clientVars, auxVars>>

\* someone else edits the sheet: a data row is overwritten or blanked
external_edit ==
    /\ \E n \in 2 .. Len(sheet), row \in {<<"b", "y">>, << >>} :
         /\ sheet[n] # row
         /\ sheet' = set_row(sheet, n, row)
    /\ hist' = [hist EXCEPT !.created = NoEntity, !.known = TRUE]
    /\ UNCHANGED <<now, cache, list_cache, rpc, rop, rloc, rcalls, rret,
                   model_class, grid_rows, spreadsheet_id,
                   poolVars, clientVars, auxVars>>

(***************************************************************************)
(* ContributionRepository: rows to contributions, and the totals           *)
(***************************************************************************)
\* data rows of the Contributions tab in the tables the totals are taken of
MaxContributions == 3

\* an amount cell: a number, text that is no number, or nothing
Number(n) == [kind |-> "number", n |-> n]
NotANumber == [kind |-> "text", n |-> 0]
Blank == [kind |-> "blank", n |-> 0]

ContributionStatus == {"pending", "confirmed", "received", "cancelled"}

\* the columns of a row that the totals depend on (amounts in thousands)
Row(id, state, year, amount, status) ==
    [id |-> id, state_code |-> state, fiscal_year |-> year,
     amount |-> amount, status |-> status]

ContributionRows ==
    {Row("c1", "CA", "2024-25", Number(50), "confirmed"),
     Row("c2", "CA", "2024-25", Number(30), "received"),
     Row("c3", "CA", "2024-25", Number(20), "pending"),
     Row("c4", "ca", "2023-24", Number(20), "confirmed"),
     Row("c5", "NY", "2024-25", Number(30), "cancelled"),
     Row("c6", "NY", "2023-24", Number(50), ""),
     Row("c7", "CA", "2024-25", NotANumber, "confirmed"),
     Row("c8", "CA", "2024-25", Blank, "received")}

ContributionTables == [1 .. MaxContributions -> ContributionRows]

NoContribution == [id |-> "", state_code |-> "", fiscal_year |-> "",
                   amount |-> 0, status |-> ""]

\* str.upper() on the state codes in use
upper(code) ==
    IF code = "ca" THEN "CA" ELSE IF code = "ny" THEN "NY" ELSE code

\* `Decimal(str(row[4])) if row[4] else Decimal('0')` inside
\* `except (ValueError, TypeError)`: text that is no number raises
\* decimal.InvalidOperation, which is neither, so it leaves _row_to_model
parse_amount(cell) ==
    IF cell.kind = "blank" THEN [raised |-> FALSE, amount |-> 0]
    ELSE IF cell.kind = "number" THEN [raised |-> FALSE, amount |-> cell.n]
    ELSE [raised |-> TRUE, amount |-> 0]

\* `ContributionStatus(row[6]) if row[6] else PENDING`, ValueError gives PENDING
parse_status(cell) ==
    IF cell \in ContributionStatus THEN cell ELSE "pending"

\* ContributionModel's validation of the fields built from the cells:
\* the fiscal year's pattern and the amount's gt=0
valid_fiscal_year(year) == year \in {"2023-24", "2024-25"}
valid_amount(amount) == amount > 0

\* ContributionRepository._row_to_model; NoContribution when it raises
contribution_of(row) ==
    LET a == parse_amount(row.amount)
    IN  IF a.raised \/ ~valid_amount(a.amount) \/ ~valid_fiscal_year(row.fiscal_year)
        THEN NoContribution
        ELSE [id |-> row.id, state_code |-> upper(row.state_code),
              fiscal_year |-> row.fiscal_year, amount |-> a.amount,
              status |-> parse_status(row.status)]

\* get_all() of a repository just constructed: every row that converts, in
\* order; rows that raise are skipped
RECURSIVE load_contributions(_)
load_contributions(rows) ==
    IF Len(rows) = 0 THEN << >>
    ELSE LET c == contribution_of(Head(rows))
         IN  (IF c = NoContribution THEN << >> ELSE <<c>>)
             \o load_contributions(Tail(rows))

\* find_by_state (find_by_field on state_code) and find_by_state_and_year
RECURSIVE matching(_, _, _)
matching(entities, state, year) ==
    IF Len(entities) = 0 THEN << >>
    ELSE LET c == Head(entities)
         IN  (IF c.state_code = state /\ (year = "" \/ c.fiscal_year = year)
              THEN <<c>> ELSE << >>)
             \o matching(Tail(entities), state, year)

\* `if contrib.status in [CONFIRMED, RECEIVED]`
counted_any(status) == TRUE
counted(status) == status \in {"confirmed", "received"}

\* the loop `total += contrib.amount`
RECURSIVE total_of(_)
total_of(entities) ==
    IF Len(entities) = 0 THEN 0
    ELSE (IF counted(Head(entities).status) THEN Head(entities).amount ELSE 0)
         + total_of(Tail(entities))

NoQuery == [op |-> "none", state_code |-> "", fiscal_year |-> ""]
NoAnswer == [kind |-> "none", total |-> 0, list |-> << >>]

\* the arguments: a state code in either case, and a fiscal year or none
QueryStates == {"CA", "ca", "NY"}
QueryYears == {"", "2024-25", "2023-24"}

TotalsQuiet ==
    /\ contributions = << >>
    /\ tpc = "idle"
    /\ tquery = NoQuery
    /\ tanswer = NoAnswer

TotalsInit ==
    /\ contributions \in ContributionTables
    /\ tpc = "idle"
    /\ tquery = NoQuery
    /\ tanswer = NoAnswer

\* get_total_by_state(state_code, fiscal_year): get_all() is awaited
get_total_by_state_call ==
    /\ tpc = "idle"
    /\ \E state \in QueryStates, year \in QueryYears :
         tquery' = [op |-> "get_total_by_state", state_code |-> state,
                    fiscal_year |-> year]
    /\ tpc' = "read"
    /\ tanswer' = NoAnswer
    /\ UNCHANGED <<contributions, totalsRest>>

\* get_all() of the contributions, as a caller's own query
contributions_get_all_call ==
    /\ tpc = "idle"
    /\ tquery' = [op |-> "get_all", state_code |-> "", fiscal_year |-> ""]
    /\ tpc' = "read"
    /\ tanswer' = NoAnswer
    /\ UNCHANGED <<contributions, totalsRest>>

\* read_range ends: the rows are loaded; get_total_by_state filters them by
\* state (upper-cased) and year and adds up the amounts that count
contributions_read ==
    /\ tpc = "read"
    /\ \E res \in {"ok", "SheetsError"} :
         IF res # "ok"
         THEN tanswer' = [NoAnswer EXCEPT !.kind = "error"]
         ELSE LET entities == load_contributions(contributions)
              IN  IF tquery.op = "get_all"
                  THEN tanswer' = [NoAnswer EXCEPT !.kind = "list", !.list = entities]
                  ELSE tanswer' = [NoAnswer EXCEPT
                                     !.kind = "total",
                                     !.total = total_of(matching(entities,
                                                   upper(tquery.state_code),
                                                   tquery.fiscal_year))]
    /\ tpc' = "done"
    /\ UNCHANGED <<contributions, tquery, totalsRest>>

\* the caller takes the answer
contributions_return ==
    /\ tpc = "done"
    /\ tpc' = "idle"
    /\ tquery' = NoQuery
    /\ tanswer' = NoAnswer
    /\ UNCHANGED <<contributions, totalsRest>>

(***************************************************************************)
(* SheetsClient._calculate_delay                                           *)
(***************************************************************************)
\* attempt numbers _calculate_delay is called with, besides the two around
\* the largest exponent of a float
MaxAttempt == 7
\* 2.0 ** n raises OverflowError from this n on (the exponent range of a
\* double)
FloatMaxExponent == 1024
\* 2 ^ n is taken up to this n; beyond it the power is past every max_delay
PowerCap == 20

Attempts == (0 .. MaxAttempt) \cup {FloatMaxExponent - 1, FloatMaxExponent}

\* RetryConfig, delays in seconds, exponential_base 2.0
RetryConfig(retries, base, max, jitter) ==
    [max_retries |-> retries, base_delay |-> base, max_delay |-> max,
     exponential_base |-> 2, jitter |-> jitter]

\* the defaults of RetryConfig
DefaultRetryConfig == RetryConfig(DefaultMaxRetries, 1, 60, TRUE)

\* the defaults, the configuration of test_calculate_delay, and
\* configurations whose max_delay is reached within the retries
RetryConfigs ==
    {DefaultRetryConfig,
     RetryConfig(DefaultMaxRetries, 1, 60, FALSE),
     RetryConfig(DefaultMaxRetries, 1, 10, FALSE),
     RetryConfig(DefaultMaxRetries, 1, 2, TRUE)}

\* random.random(), in halves: 0, 0.5, and the largest float below 1
Randoms == {0, 1, 2}

\* `0.5 + random.random() * 0.5`, in quarters; for the largest float below 1
\* the sum rounds to 1.0
jitter_factor_wide(r) == 1 + r
jitter_factor(r) == 2 + r

\* `self.retry_config.exponential_base ** attempt`
power(base, att) ==
    IF att > PowerCap THEN base ^ PowerCap ELSE base ^ att

\* _calculate_delay(attempt), the delay in quarters of a second; r is the
\* value random.random() returns when jitter is on
calculate_delay(config, att, r) ==
    IF att >= FloatMaxExponent
    THEN [kind |-> "OverflowError", attempt |-> att, quarters |-> 0]
    ELSE LET grown == config.base_delay * power(config.exponential_base, att)
             capped == IF grown <= config.max_delay THEN grown ELSE config.max_delay
         IN  [kind |-> "value", attempt |-> att,
              quarters |-> IF config.jitter THEN capped * jitter_factor(r)
                           ELSE capped * 4]

NoDelay == [kind |-> "none", attempt |-> 0, quarters |-> 0]

DelayQuiet ==
    /\ retry_config = DefaultRetryConfig
    /\ slept = << >>
    /\ delay = NoDelay

DelayInit ==
    /\ retry_config \in RetryConfigs
    /\ slept = << >>
    /\ delay = NoDelay

\* a call of _calculate_delay
calculate_delay_call ==
    /\ \E att \in Attempts, r \in Randoms :
         delay' = calculate_delay(retry_config, att, r)
    /\ UNCHANGED <<retry_config, slept, delayRest>>

\* the retry loop sleeps after a failed attempt that may be retried: the
\* first attempt is number 0 and each sleep is followed by the next attempt
retry_sleep ==
    /\ Len(slept) < retry_config.max_retries
    /\ \E r \in Randoms :
         slept' = Append(slept, calculate_delay(retry_config, Len(slept), r).quarters)
    /\ UNCHANGED <<retry_config, delay, delayRest>>

\* the operation returns or raises
operation_over ==
    /\ slept # << >>
    /\ slept' = << >>
    /\ UNCHANGED <<retry_config, delay, delayRest>>

(***************************************************************************)
(* RepositoryFactory                                                       *)
(***************************************************************************)
\* the six properties, in the order the factory's methods read them
RepositoryOrder ==
    <<"funder", "contribution", "state_target", "prospect", "state", "school">>

RepositoryTypes == {RepositoryOrder[i] : i \in 1 .. Len(RepositoryOrder)}

NoRepository == [object |-> 0]

\* Python's `a or b` on an optional string: None and "" are false
or_else(a, b) == IF a \in {"None", ""} THEN b ELSE a

\* get_sheets_client(): the module-wide client
GlobalClient == "global client"

\* RepositoryFactory.__init__
new_factory(id, client, settings) ==
    [spreadsheet_id |-> or_else(id, settings),
     sheets_client |-> or_else(client, GlobalClient),
     built |-> 0,
     repos |-> [name \in RepositoryTypes |-> NoRepository]]

\* BaseRepository.__init__ as the properties call it; `object` tells one
\* instance from another
new_repository(f, name, settings) ==
    [object |-> f.built + 1,
     type |-> name,
     spreadsheet_id |-> or_else(f.spreadsheet_id, settings),
     sheets_client |-> or_else(f.sheets_client, GlobalClient)]

\* a property that builds an instance on every access
repository_property_always(f, name, settings) ==
    [f EXCEPT !.repos[name] = new_repository(f, name, settings),
              !.built = f.built + 1]

\* one of the six properties: the factory after the access
repository_property(f, name, settings) ==
    IF f.repos[name] = NoRepository
    THEN [f EXCEPT !.repos[name] = new_repository(f, name, settings),
                   !.built = f.built + 1]
    ELSE f

\* the factory after reading the properties names[i .. ] in turn
RECURSIVE read_properties(_, _, _, _)
read_properties(f, names, i, settings) ==
    IF i > Len(names) THEN f
    ELSE read_properties(repository_property(f, names[i], settings),
                         names, i + 1, settings)

\* str.lower() on the names callers pass
lower(name) ==
    CASE name = "FUNDER" -> "funder"
      [] name = "School" -> "school"
      [] OTHER -> name

RepositoryNames == {"funder", "state_target", "FUNDER", "School", "donor"}

NoAccess == [kind |-> "none"]

FactoryQuiet ==
    /\ settings_id = "None"
    /\ factory = new_factory("None", "None", "None")
    /\ got = NoAccess

FactoryInit ==
    /\ settings_id \in {"None", "sheet of settings"}
    /\ \E id \in {"None", "", "sheet of caller"}, client \in {"None", "client of caller"} :
         factory = new_factory(id, client, settings_id)
    /\ got = NoAccess

\* reading factory.<name>_repository
repository_property_get ==
    /\ \E name \in RepositoryTypes :
         LET after == repository_property(factory, name, settings_id)
         IN  /\ factory' = after
             /\ got' = [kind |-> "one", name |-> name,
                        fresh |-> (factory.repos[name] = NoRepository),
                        value |-> after.repos[name]]
    /\ UNCHANGED <<settings_id, factoryRest>>

get_repository_by_name ==
    /\ \E name \in RepositoryNames :
         LET after == read_properties(factory, RepositoryOrder, 1, settings_id)
         IN  /\ factory' = after
             /\ got' = IF lower(name) \in RepositoryTypes
                       THEN [kind |-> "one", name |-> lower(name),
                             fresh |-> (factory.repos[lower(name)] = NoRepository),
                             value |-> after.repos[lower(name)]]
                       ELSE [kind |-> "None"]
    /\ UNCHANGED <<settings_id, factoryRest>>

get_all_repositories ==
    /\ LET after == read_properties(factory, RepositoryOrder, 1, settings_id)
       IN  /\ factory' = after
           /\ got' = [kind |-> "all", value |-> after.repos]
    /\ UNCHANGED <<settings_id, factoryRest>>

\* clear_all_caches reads the slots themselves, never the properties, and
\* clears the caches of the instances it finds
clear_all_caches ==
    /\ got' = [kind |-> "cleared",
               value |-> {name \in RepositoryTypes :
                             factory.repos[name] # NoRepository}]
    /\ UNCHANGED <<settings_id, factory, factoryRest>>

(***************************************************************************)
(* BaseRepository.update called by two tasks for the same entity           *)
(***************************************************************************)
\* the tasks, and the one field each of them changes
Updaters == {1, 2}
updates(u) == IF u = 1 THEN [field |-> "name", value |-> "y"]
              ELSE [field |-> "status", value |-> "inactive"]

\* the entity as the sheet holds it at first
StoredEntity == [name |-> "x", status |-> "active"]

\* `entity_dict.update(updates)`
apply_updates(entity, u) ==
    IF updates(u).field = "name" THEN [entity EXCEPT !.name = updates(u).value]
    ELSE [entity EXCEPT !.status = updates(u).value]

NoCached == [present |-> FALSE, data |-> StoredEntity]
Cached(entity) == [present |-> TRUE, data |-> entity]
NoUpdated == [set |-> FALSE, entity |-> StoredEntity]

\* what a read_range or write_range of the client ends with
UpdateResults == {"ok", "SheetsConnectionError"}

UpdateQuiet ==
    /\ urow = StoredEntity
    /\ ucache = [entity |-> NoCached, list |-> NoCached]
    /\ upc = [u \in Updaters |-> "idle"]
    /\ uloc = [u \in Updaters |-> NoUpdated]

\* update, from the current entity on: the updates are applied, get_all() is
\* called for the position, which reads the sheet unless the list is cached,
\* and write_range is called with the whole row
update_entity(u, current, c) ==
    /\ uloc' = [uloc EXCEPT ![u] = [set |-> TRUE, entity |-> apply_updates(current, u)]]
    /\ ucache' = c
    /\ upc' = [upc EXCEPT ![u] = IF c.list.present THEN "write_range" ELSE "get_all"]

\* update(id, updates) up to its first client call: get_by_id answers from the
\* entity's entry, or from the cached list (and stores the entry), or reads
update_entity_call(u) ==
    /\ upc[u] = "idle"
    /\ IF ucache.entity.present
       THEN update_entity(u, ucache.entity.data, ucache)
       ELSE IF ucache.list.present
       THEN update_entity(u, ucache.list.data, [ucache EXCEPT !.entity = ucache.list])
       ELSE /\ upc' = [upc EXCEPT ![u] = "get_by_id"]
            /\ UNCHANGED <<ucache, uloc>>
    /\ UNCHANGED <<urow, updateRest>>

\* the read_range of get_by_id ends: the list and the entity are cached
update_entity_found(u) ==
    /\ upc[u] = "get_by_id"
    /\ \E res \in UpdateResults :
         IF res = "ok"
         THEN update_entity(u, urow, [entity |-> Cached(urow), list |-> Cached(urow)])
         ELSE /\ upc' = [upc EXCEPT ![u] = "raised"]
              /\ UNCHANGED <<ucache, uloc>>
    /\ UNCHANGED <<urow, updateRest>>

\* the read_range of update's own get_all ends: the list is cached
update_entity_located(u) ==
    /\ upc[u] = "get_all"
    /\ \E res \in UpdateResults :
         IF res = "ok"
         THEN /\ ucache' = [ucache EXCEPT !.list = Cached(urow)]
              /\ upc' = [upc EXCEPT ![u] = "write_range"]
         ELSE /\ upc' = [upc EXCEPT ![u] = "raised"]
              /\ UNCHANGED ucache
    /\ UNCHANGED <<urow, uloc, updateRest>>

\* write_range ends: the row is replaced by updated_entity's row, the
\* entity's entry and the list are invalidated, and update returns
write_updated(u) == uloc[u].entity

update_entity_write(u) ==
    /\ upc[u] = "write_range"
    /\ \E res \in UpdateResults :
         IF res = "ok"
         THEN /\ urow' = write_updated(u)
              /\ ucache' = [entity |-> NoCached, list |-> NoCached]
              /\ upc' = [upc EXCEPT ![u] = "returned"]
         ELSE /\ upc' = [upc EXCEPT ![u] = "raised"]
              /\ UNCHANGED <<urow, ucache>>
    /\ UNCHANGED <<uloc, updateRest>>

\* another caller's get_by_id, which misses the caches
entity_looked_up ==
    /\ ~ucache.entity.present
    /\ ucache' = [entity |-> Cached(urow),
                  list |-> IF ucache.list.present THEN ucache.list ELSE Cached(urow)]
    /\ UNCHANGED <<urow, upc, uloc, updateRest>>

\* the entries expire
entries_expire ==
    /\ ucache.entity.present \/ ucache.list.present
    /\ \E c \in [entity : {ucache.entity, NoCached}, list : {ucache.list, NoCached}] :
         /\ c # ucache
         /\ ucache' = c
    /\ UNCHANGED <<urow, upc, uloc, updateRest>>

(***************************************************************************)
(* SheetsClient._ensure_authenticated called by several tasks              *)
(***************************************************************************)
AuthCallers == {1, 2, 3}

AuthQuiet ==
    /\ auth_lock = NoTask
    /\ apc = [t \in AuthCallers |-> "idle"]
    /\ refreshed = 0

\* `async with self._auth_lock` lets a task in
auth_lock_open(t) == TRUE
auth_lock_free(t) == auth_lock = NoTask

\* a task enters the block guarded by the lock
auth_enter(t) ==
    /\ apc[t] = "idle"
    /\ auth_lock_free(t)
    /\ auth_lock' = t
    /\ apc' = [apc EXCEPT ![t] = "locked"]
    /\ UNCHANGED <<needsRefresh, refreshed, authRest>>

\* inside the block: without credentials the method raises; credentials
\* that are expired or older than 50 minutes are to be refreshed; otherwise
\* the method returns.  Leaving the block frees the lock.
auth_check(t) ==
    /\ apc[t] = "locked"
    /\ IF credentials = "none"
       THEN /\ apc' = [apc EXCEPT ![t] = "raised"]
            /\ auth_lock' = IF auth_lock = t THEN NoTask ELSE auth_lock
       ELSE IF needsRefresh
       THEN /\ apc' = [apc EXCEPT ![t] = "refreshing"]
            /\ UNCHANGED auth_lock
       ELSE /\ apc' = [apc EXCEPT ![t] = "passed"]
            /\ auth_lock' = IF auth_lock = t THEN NoTask ELSE auth_lock
    /\ UNCHANGED <<needsRefresh, refreshed, authRest>>

\* credentials.refresh(Request()) ends: the token is renewed and the time
\* of the refresh is noted, or the failure is raised as SheetsAuthError
auth_refresh(t) ==
    /\ apc[t] = "refreshing"
    /\ \E refreshOk \in BOOLEAN :
         IF refreshOk
         THEN /\ needsRefresh' = FALSE
              /\ refreshed' = refreshed + 1
              /\ apc' = [apc EXCEPT ![t] = "refreshed"]
         ELSE /\ apc' = [apc EXCEPT ![t] = "raised"]
              /\ UNCHANGED <<needsRefresh, refreshed>>
    /\ auth_lock' = IF auth_lock = t THEN NoTask ELSE auth_lock
    /\ UNCHANGED authRest

\* the caller goes on
auth_return(t) ==
    /\ apc[t] \in {"passed", "refreshed", "raised"}
    /\ apc' = [apc EXCEPT ![t] = "idle"]
    /\ UNCHANGED <<auth_lock, needsRefresh, refreshed, authRest>>

\* the token expires, or 50 minutes go by since the last refresh
auth_expire ==
    /\ credentials = "set"
    /\ ~needsRefresh
    /\ needsRefresh' = TRUE
    /\ refreshed' = 0
    /\ UNCHANGED <<auth_lock, apc, authRest>>

\* the parts modelled on their own, at rest
(***************************************************************************)
(* StateTargetRepository.create_or_update_target called by two tasks       *)
(***************************************************************************)
Upserters == {1, 2}
\* the (state_code, fiscal_year) pairs the calls are made for
Pairs == {"CA 2024-25", "NY 2024-25"}
\* rows the tab has room for
MaxTargets == 3
TargetIds == 1 .. MaxTargets

Target(id, pair, amount) == [id |-> id, pair |-> pair, amount |-> amount]
NoTarget == Target(0, "", 0)
NoTargetEntry == [present |-> FALSE, data |-> NoTarget]
NoTargetList == [present |-> FALSE, data |-> << >>]
NoTargetCache == [ids |-> [i \in TargetIds |-> NoTargetEntry], list |-> NoTargetList]
NoTargetLocals == [pair |-> "", amount |-> 0, entity |-> NoTarget, row |-> 0]

\* what a read_range, write_range or append_rows of the client ends with
TargetResults == {"ok", "SheetsConnectionError"}

TargetQuiet ==
    /\ target_sheet = << >>
    /\ target_cache = NoTargetCache
    /\ tgpc = [u \in Upserters |-> "idle"]
    /\ tgloc = [u \in Upserters |-> NoTargetLocals]

\* `id: str = Field(default_factory=lambda: str(uuid.uuid4()))`: an id that
\* no row and no task holds
ids_held ==
    {target_sheet[i].id : i \in 1 .. Len(target_sheet)}
        \cup {tgloc[u].entity.id : u \in Upserters}
uuid4 == CHOOSE i \in 1 .. MaxTargets + 2 : i \notin ids_held /\ \A j \in 1 .. i - 1 : j \in ids_held

\* position of the first entity of the list that satisfies the test, or 0
first_with_pair(entities, pair) ==
    IF \E i \in 1 .. Len(entities) : entities[i].pair = pair
    THEN Min({i \in 1 .. Len(entities) : entities[i].pair = pair})
    ELSE 0
first_with_id(entities, id) ==
    IF \E i \in 1 .. Len(entities) : entities[i].id = id
    THEN Min({i \in 1 .. Len(entities) : entities[i].id = id})
    ELSE 0

\* create_or_update_target once find_by_state_and_year has the list (which
\* get_all has cached in c): with an existing target, update(existing.id)
\* takes the current entity from the per-id entry or from the cached list,
\* applies the updates, locates the row in the cached list and calls
\* write_range; without one, a new StateTargetModel is built and create
\* calls append_rows
find_by_state_and_year_found(u, pair, amount, entities, c) ==
    LET i == first_with_pair(entities, pair)
        id == entities[i].id
        current == IF c.ids[id].present THEN c.ids[id].data ELSE entities[i]
        updated == [current EXCEPT !.amount = amount]
    IN  IF i > 0
        THEN /\ target_cache' = [c EXCEPT !.ids[id] = [present |-> TRUE, data |-> current]]
             /\ tgpc' = [tgpc EXCEPT ![u] = "update:write_range"]
             /\ tgloc' = [tgloc EXCEPT ![u] = [pair |-> pair, amount |-> amount,
                                               entity |-> updated,
                                               row |-> first_with_id(entities, id)]]
        ELSE /\ target_cache' = c
             /\ tgpc' = [tgpc EXCEPT ![u] = "create:append_rows"]
             /\ tgloc' = [tgloc EXCEPT ![u] = [pair |-> pair, amount |-> amount,
                                               entity |-> Target(uuid4, pair, amount),
                                               row |-> 0]]

\* create_or_update_target(state_code, fiscal_year, target_amount) up to its
\* first client call: get_all answers from the cached list or calls read_range
create_or_update_target_call(u) ==
    /\ tgpc[u] = "idle"
    /\ Len(target_sheet) + Cardinality({v \in Upserters : tgpc[v] = "create:append_rows"})
          < MaxTargets
    /\ \E pair \in Pairs :
         IF target_cache.list.present
         THEN find_by_state_and_year_found(u, pair, u, target_cache.list.data, target_cache)
         ELSE /\ tgpc' = [tgpc EXCEPT ![u] = "find:read_range"]
              /\ tgloc' = [tgloc EXCEPT ![u] = [NoTargetLocals EXCEPT !.pair = pair,
                                                                      !.amount = u]]
              /\ UNCHANGED target_cache
    /\ UNCHANGED <<target_sheet, targetRest>>

\* the read_range of find_by_state_and_year's get_all ends: the list is cached
find_by_state_and_year_read(u) ==
    /\ tgpc[u] = "find:read_range"
    /\ \E res \in TargetResults :
         IF res = "ok"
         THEN find_by_state_and_year_found(
                  u, tgloc[u].pair, tgloc[u].amount, target_sheet,
                  [target_cache EXCEPT !.list = [present |-> TRUE, data |-> target_sheet]])
         ELSE /\ tgpc' = [tgpc EXCEPT ![u] = "raised"]
              /\ tgloc' = [tgloc EXCEPT ![u] = NoTargetLocals]
              /\ UNCHANGED target_cache
    /\ UNCHANGED <<target_sheet, targetRest>>

\* append_rows ends: the row is appended, every cache entry is dropped
create_target_append(u) ==
    /\ tgpc[u] = "create:append_rows"
    /\ \E res \in TargetResults :
         IF res = "ok"
         THEN /\ target_sheet' = Append(target_sheet, tgloc[u].entity)
              /\ target_cache' = NoTargetCache
              /\ tgpc' = [tgpc EXCEPT ![u] = "returned"]
         ELSE /\ tgpc' = [tgpc EXCEPT ![u] = "raised"]
              /\ UNCHANGED <<target_sheet, target_cache>>
    /\ tgloc' = [tgloc EXCEPT ![u] = NoTargetLocals]
    /\ UNCHANGED targetRest

\* write_range ends: row i + 2 of the tab is replaced, the entity's entry
\* and the list are dropped
update_target_write(u) ==
    /\ tgpc[u] = "update:write_range"
    /\ \E res \in TargetResults :
         IF res = "ok"
         THEN /\ target_sheet' = [target_sheet EXCEPT ![tgloc[u].row] = tgloc[u].entity]
              /\ target_cache' = [ids |-> [target_cache.ids EXCEPT
                                              ![tgloc[u].entity.id] = NoTargetEntry],
                                  list |-> NoTargetList]
              /\ tgpc' = [tgpc EXCEPT ![u] = "returned"]
         ELSE /\ tgpc' = [tgpc EXCEPT ![u] = "raised"]
              /\ UNCHANGED <<target_sheet, target_cache>>
    /\ tgloc' = [tgloc EXCEPT ![u] = NoTargetLocals]
    /\ UNCHANGED targetRest

\* the caller has its answer and may call again
target_returned(u) ==
    /\ tgpc[u] \in {"returned", "raised"}
    /\ tgpc' = [tgpc EXCEPT ![u] = "idle"]
    /\ UNCHANGED <<target_sheet, target_cache, tgloc, targetRest>>

\* the cache entries expire
target_entries_expire ==
    /\ target_cache # NoTargetCache
    /\ target_cache' = NoTargetCache
    /\ UNCHANGED <<target_sheet, tgpc, tgloc, targetRest>>

(***************************************************************************)
(* StateRepository.create_or_update_state and get_by_code                  *)
(***************************************************************************)
\* the codes the calls are made with, and the names
StateCodes == {"ca", "CA", "NY"}
StateNames == {"x", "y"}
StoredCodes == {upper(code) : code \in StateCodes}
\* rows the tab has room for
MaxStates == 3

\* StateModel: its fields are code, name, ...; it has no field `id`
State(code, name) == [code |-> code, name |-> name]
NoState == State("", "")
NoStateEntry == [present |-> FALSE, data |-> NoState]
NoStateList == [present |-> FALSE, data |-> << >>]
NoStateCache == [ids |-> [c \in StoredCodes |-> NoStateEntry], list |-> NoStateList]
NoStateCall == [method |-> "none", code |-> "", name |-> "", entity |-> NoState, row |-> 0]
NoStateRet == [kind |-> "none", entity |-> NoState]

StateResults == {"ok", "SheetsConnectionError"}

StateQuiet ==
    /\ state_sheet = << >>
    /\ state_cache = NoStateCache
    /\ stpc = "idle"
    /\ stloc = NoStateCall
    /\ stret = NoStateRet

\* `getattr(entity, 'id', None)`
getattr_id(entity) == IF "id" \in DOMAIN entity THEN entity.id ELSE None

\* the scan of get_by_id and of update:
\* `if getattr(entity, 'id', None) == entity_id`
state_index(entities, id) ==
    IF \E i \in 1 .. Len(entities) : getattr_id(entities[i]) = id
    THEN Min({i \in 1 .. Len(entities) : getattr_id(entities[i]) = id})
    ELSE 0

\* the call goes on once get_by_id(code.upper()) has the list, which get_all
\* has cached in c: the entity found is cached under its id and returned to
\* get_by_code; create_or_update_state then goes to update, which takes the
\* current entity from its entry, applies the updates, locates the row in
\* the cached list and calls write_range, or else to create, which calls
\* append_rows
get_by_id_state(call, entities, c) ==
    LET id == upper(call.code)
        i == state_index(entities, id)
        found == c.ids[id].present \/ i > 0
        current == IF c.ids[id].present THEN c.ids[id].data ELSE entities[i]
    IN  /\ state_cache' = IF found
                          THEN [c EXCEPT !.ids[id] = [present |-> TRUE, data |-> current]]
                          ELSE c
        /\ IF call.method = "get_by_code"
           THEN /\ stpc' = "returned"
                /\ stloc' = [NoStateCall EXCEPT !.method = call.method, !.code = call.code]
                /\ stret' = IF found THEN [kind |-> "entity", entity |-> current]
                            ELSE [kind |-> "None", entity |-> NoState]
           ELSE /\ stret' = NoStateRet
                /\ IF found
                   THEN /\ stpc' = "update:write_range"
                        /\ stloc' = [call EXCEPT !.entity = [current EXCEPT !.name = call.name],
                                                 !.row = state_index(entities, id)]
                   ELSE /\ stpc' = "create:append_rows"
                        /\ stloc' = [call EXCEPT !.entity = State(id, call.name)]

\* get_by_id up to its client call: the entry of the id, the cached list, or
\* read_range
get_by_id_state_call(call) ==
    IF state_cache.ids[upper(call.code)].present \/ state_cache.list.present
    THEN get_by_id_state(call, state_cache.list.data, state_cache)
    ELSE /\ stpc' = "get_by_id:read_range"
         /\ stloc' = call
         /\ stret' = NoStateRet
         /\ UNCHANGED state_cache

\* create_or_update_state(code, name)
create_or_update_state_call ==
    /\ stpc = "idle"
    /\ Len(state_sheet) < MaxStates
    /\ \E code \in StateCodes, name \in StateNames :
         get_by_id_state_call([NoStateCall EXCEPT !.method = "create_or_update_state",
                                                  !.code = code, !.name = name])
    /\ UNCHANGED <<state_sheet, stateRest>>

\* get_by_code(state_code)
get_by_code_call ==
    /\ stpc = "idle"
    /\ \E code \in StateCodes :
         get_by_id_state_call([NoStateCall EXCEPT !.method = "get_by_code", !.code = code])
    /\ UNCHANGED <<state_sheet, stateRest>>

\* the read_range of get_by_id's get_all ends: the list is cached
get_by_id_state_read ==
    /\ stpc = "get_by_id:read_range"
    /\ \E res \in StateResults :
         IF res = "ok"
         THEN get_by_id_state(stloc, state_sheet,
                              [state_cache EXCEPT !.list = [present |-> TRUE,
                                                            data |-> state_sheet]])
         ELSE /\ stpc' = "raised"
              /\ stloc' = NoStateCall
              /\ stret' = [kind |-> res, entity |-> NoState]
              /\ UNCHANGED state_cache
    /\ UNCHANGED <<state_sheet, stateRest>>

\* the client call that writes ends: create's append_rows adds the row and
\* drops every cache entry; update's write_range replaces row i + 2 and
\* drops the entity's entry and the list
state_written ==
    /\ stpc \in {"create:append_rows", "update:write_range"}
    /\ \E res \in StateResults :
         IF res = "ok"
         THEN /\ IF stpc = "create:append_rows"
                 THEN /\ state_sheet' = Append(state_sheet, stloc.entity)
                      /\ state_cache' = NoStateCache
                 ELSE /\ state_sheet' = [state_sheet EXCEPT ![stloc.row] = stloc.entity]
                      /\ state_cache' = [ids |-> [state_cache.ids EXCEPT
                                                     ![upper(stloc.code)] = NoStateEntry],
                                         list |-> NoStateList]
              /\ stpc' = "returned"
              /\ stret' = [kind |-> "entity", entity |-> stloc.entity]
         ELSE /\ stpc' = "raised"
              /\ stret' = [kind |-> res, entity |-> NoState]
              /\ UNCHANGED <<state_sheet, state_cache>>
    /\ stloc' = [NoStateCall EXCEPT !.method = stloc.method, !.code = stloc.code]
    /\ UNCHANGED stateRest

\* the caller has its answer and may call again
state_returned ==
    /\ stpc \in {"returned", "raised"}
    /\ stpc' = "idle"
    /\ stloc' = NoStateCall
    /\ stret' = NoStateRet
    /\ UNCHANGED <<state_sheet, state_cache, stateRest>>

\* the cache entries expire (an entry is stored from the cached list, and
\* both are dropped here together)
state_entries_expire ==
    /\ stpc = "idle"
    /\ state_cache # NoStateCache
    /\ state_cache' = NoStateCache
    /\ UNCHANGED <<state_sheet, stpc, stloc, stret, stateRest>>

(***************************************************************************)
(* FunderRepository.add_tag and add_contribution_to_funder on one funder   *)
(***************************************************************************)
FunderTags == {"vip", "new"}
FunderContributions == {"c1"}

\* FunderModel: the two lists the calls append to (membership is all that is
\* asked of them)
Funder(tags, history) == [tags |-> tags, contribution_history |-> history]
NoFunder == Funder({}, {})
NoFunderEntry == [present |-> FALSE, data |-> NoFunder]
\* `same`: the entry and the element of the cached list are one object
NoFunderCache == [entry |-> NoFunderEntry, list |-> NoFunderEntry, same |-> FALSE]
NoFunderCall == [method |-> "none", item |-> "", entity |-> NoFunder]
NoFunderRet == [kind |-> "none", entity |-> NoFunder]

FunderResults == {"ok", "SheetsConnectionError"}

FunderQuiet ==
    /\ funder_row = NoFunder
    /\ funder_cache = NoFunderCache
    /\ fpc = "idle"
    /\ floc = NoFunderCall
    /\ fret = NoFunderRet

\* `tag in funder.tags`, `contribution_id in funder.contribution_history`
holds_item(funder, call) ==
    IF call.method = "add_tag" THEN call.item \in funder.tags
    ELSE call.item \in funder.contribution_history

\* `funder.tags.append(tag)`, `funder.add_contribution(contribution_id)`
with_item(funder, call) ==
    IF call.method = "add_tag" THEN [funder EXCEPT !.tags = @ \cup {call.item}]
    ELSE [funder EXCEPT !.contribution_history = @ \cup {call.item}]

\* the object get_by_id returned is changed: so is every cache slot holding it
item_added(c, call) ==
    [entry |-> [c.entry EXCEPT !.data = with_item(@, call)],
     list |-> IF c.same /\ c.list.present
              THEN [c.list EXCEPT !.data = with_item(@, call)]
              ELSE c.list,
     same |-> c.same]

\* add_tag and add_contribution_to_funder once get_by_id has returned the
\* funder (the object of the entry in c): if it holds the item it is
\* returned; otherwise the item is appended to it and update is called,
\* whose get_by_id hits the entry, and whose get_all answers from the cached
\* list or calls read_range, before write_range
add_item(call, c) ==
    LET funder == c.entry.data
        updated == with_item(funder, call)
    IN  IF holds_item(funder, call)
        THEN /\ funder_cache' = c
             /\ fpc' = "returned"
             /\ floc' = [call EXCEPT !.entity = NoFunder]
             /\ fret' = [kind |-> "entity", entity |-> funder]
        ELSE /\ funder_cache' = item_added(c, call)
             /\ fpc' = IF c.list.present THEN "update:write_range" ELSE "update:read_range"
             /\ floc' = [call EXCEPT !.entity = updated]
             /\ fret' = NoFunderRet

\* get_by_id(funder_id) up to its client call: the entry, or the cached list
\* (whose element is stored as the entry), or read_range
get_funder(call) ==
    IF funder_cache.entry.present
    THEN add_item(call, funder_cache)
    ELSE IF funder_cache.list.present
    THEN add_item(call, [funder_cache EXCEPT !.entry = funder_cache.list, !.same = TRUE])
    ELSE /\ fpc' = "get_by_id:read_range"
         /\ floc' = call
         /\ fret' = NoFunderRet
         /\ UNCHANGED funder_cache

\* add_tag(funder_id, tag)
add_tag_call ==
    /\ fpc = "idle"
    /\ \E tag \in FunderTags :
         get_funder([NoFunderCall EXCEPT !.method = "add_tag", !.item = tag])
    /\ UNCHANGED <<funder_row, funderRest>>

\* add_contribution_to_funder(funder_id, contribution_id)
add_contribution_to_funder_call ==
    /\ fpc = "idle"
    /\ \E id \in FunderContributions :
         get_funder([NoFunderCall EXCEPT !.method = "add_contribution_to_funder",
                                         !.item = id])
    /\ UNCHANGED <<funder_row, funderRest>>

\* the read_range of get_by_id's get_all ends: the list is cached and its
\* element is stored as the entry
get_funder_read ==
    /\ fpc = "get_by_id:read_range"
    /\ \E res \in FunderResults :
         IF res = "ok"
         THEN add_item(floc, [entry |-> [present |-> TRUE, data |-> funder_row],
                              list |-> [present |-> TRUE, data |-> funder_row],
                              same |-> TRUE])
         ELSE /\ fpc' = "raised"
              /\ floc' = [floc EXCEPT !.entity = NoFunder]
              /\ fret' = [kind |-> res, entity |-> NoFunder]
              /\ UNCHANGED funder_cache
    /\ UNCHANGED <<funder_row, funderRest>>

\* the read_range of update's get_all ends: a new list is cached
update_funder_read ==
    /\ fpc = "update:read_range"
    /\ \E res \in FunderResults :
         IF res = "ok"
         THEN /\ funder_cache' = [funder_cache EXCEPT
                                     !.list = [present |-> TRUE, data |-> funder_row],
                                     !.same = FALSE]
              /\ fpc' = "update:write_range"
              /\ UNCHANGED <<floc, fret>>
         ELSE /\ fpc' = "raised"
              /\ floc' = [floc EXCEPT !.entity = NoFunder]
              /\ fret' = [kind |-> res, entity |-> NoFunder]
              /\ UNCHANGED funder_cache
    /\ UNCHANGED <<funder_row, funderRest>>

\* write_range ends: the row is replaced by updated_entity's, the entry and
\* the list are dropped and updated_entity is returned; when it raises, the
\* caches are left as they are
update_funder_write ==
    /\ fpc = "update:write_range"
    /\ \E res \in FunderResults :
         IF res = "ok"
         THEN /\ funder_row' = floc.entity
              /\ funder_cache' = NoFunderCache
              /\ fpc' = "returned"
              /\ fret' = [kind |-> "entity", entity |-> floc.entity]
         ELSE /\ fpc' = "raised"
              /\ fret' = [kind |-> res, entity |-> NoFunder]
              /\ UNCHANGED <<funder_row, funder_cache>>
    /\ floc' = [floc EXCEPT !.entity = NoFunder]
    /\ UNCHANGED funderRest

\* the caller has its answer and may call again
funder_returned ==
    /\ fpc \in {"returned", "raised"}
    /\ fpc' = "idle"
    /\ floc' = NoFunderCall
    /\ fret' = NoFunderRet
    /\ UNCHANGED <<funder_row, funder_cache, funderRest>>

\* the entry, the list or both expire
funder_entries_expire ==
    /\ fpc = "idle"
    /\ \E c \in {[funder_cache EXCEPT !.entry = NoFunderEntry, !.same = FALSE],
                 [funder_cache EXCEPT !.list = NoFunderEntry, !.same = FALSE],
                 NoFunderCache} :
         /\ c # funder_cache
         /\ funder_cache' = c
    /\ UNCHANGED <<funder_row, fpc, floc, fret, funderRest>>

(***************************************************************************)
(* Client operations run by several tasks: each attempt takes a handle     *)
(* from the pool (_get_service), makes the remote call and gives the       *)
(* handle back in its finally clause (_release_service).  The steps of an  *)
(* attempt are taken one by one here, so that the tasks interleave at      *)
(* least as finely as the suspension points of the code allow.             *)
(***************************************************************************)
OpCallers == {1, 2, 3}
\* retry_config.max_retries of the client the tasks share
OpRetries == 1

OpQuiet ==
    /\ opc = [t \in OpCallers |-> "idle"]
    /\ oattempt = [t \in OpCallers |-> 0]
    /\ opending = [t \in OpCallers |-> "none"]

\* the except clauses of _execute_with_retry: a failure that is retried
\* sleeps while attempts are left, any other raises
after_attempt(t, pending) ==
    IF pending = "return" THEN "returned"
    ELSE IF pending = "retry" /\ oattempt[t] < OpRetries THEN "backoff"
    ELSE "raised"

\* `try: ... finally: await self._release_service(service)`: the handle is
\* given back however the remote call ended
release_on_success(pending) == pending = "return"
release_in_finally(pending) == TRUE

\* a client operation is called: the first pass of the retry loop begins
operation_call(t) ==
    /\ opc[t] = "idle"
    /\ opc' = [opc EXCEPT ![t] = "attempt"]
    /\ oattempt' = [oattempt EXCEPT ![t] = 0]
    /\ opending' = [opending EXCEPT ![t] = "none"]
    /\ UNCHANGED <<poolVars, clientVars, repoVars, totalsVars, delayVars, factoryVars,
                   updateVars, authVars, targetVars, stateVars, funderVars, appendVars>>

\* _get_service: _ensure_authenticated, which may raise, then
\* ConnectionPool.get_connection: queue for the lock while it is held; with
\* the lock, reuse the first idle handle, else build one if under the limit
\* (build may raise), else enter the wait loop with the lock held.  A raise
\* here is outside the try of the operation: no handle, nothing to release
get_service(t) ==
    /\ opc[t] \in {"attempt", "get_lock"}
    /\ \E authenticated \in BOOLEAN, built \in BOOLEAN :
         IF opc[t] = "attempt" /\ ~authenticated
         THEN /\ opc' = [opc EXCEPT ![t] = after_attempt(t, "retry")]
              /\ UNCHANGED <<connections, in_use, lockOwner, held>>
         ELSE IF lockOwner # NoTask
         THEN /\ opc[t] = "attempt"
              /\ opc' = [opc EXCEPT ![t] = "get_lock"]
              /\ UNCHANGED <<connections, in_use, lockOwner, held>>
         ELSE IF IdleHandles # {}
         THEN /\ in_use' = in_use \cup {Min(IdleHandles)}
              /\ held' = [held EXCEPT ![t] = Min(IdleHandles)]
              /\ opc' = [opc EXCEPT ![t] = "execute"]
              /\ UNCHANGED <<connections, lockOwner>>
         ELSE IF UnderLimit
         THEN IF built
              THEN /\ connections' = connections + 1
                   /\ in_use' = in_use \cup {connections + 1}
                   /\ held' = [held EXCEPT ![t] = connections + 1]
                   /\ opc' = [opc EXCEPT ![t] = "execute"]
                   /\ UNCHANGED lockOwner
              ELSE /\ opc' = [opc EXCEPT ![t] = after_attempt(t, "retry")]
                   /\ UNCHANGED <<connections, in_use, lockOwner, held>>
         ELSE /\ lockOwner' = t
              /\ opc' = [opc EXCEPT ![t] = "polling"]
              /\ UNCHANGED <<connections, in_use, held>>
    /\ UNCHANGED <<ppc, polls, oattempt, opending>>
    /\ UNCHANGED <<clientVars, repoVars, totalsVars, delayVars, factoryVars,
                   updateVars, authVars, targetVars, stateVars, funderVars, appendVars>>

\* one turn of `while len(self.in_use) >= self.max_connections: sleep(0.1)`,
\* run with the lock held; when the loop ends get_connection calls itself
\* and queues for the lock that its own frame holds
pool_wait(t) ==
    /\ opc[t] = "polling"
    /\ IF PoolExhausted
       THEN /\ polls < MaxPolls
            /\ polls' = polls + 1
            /\ UNCHANGED opc
       ELSE /\ opc' = [opc EXCEPT ![t] = "get_lock"]
            /\ UNCHANGED polls
    /\ UNCHANGED <<connections, in_use, lockOwner, ppc, held, oattempt, opending>>
    /\ UNCHANGED <<clientVars, repoVars, totalsVars, delayVars, factoryVars,
                   updateVars, authVars, targetVars, stateVars, funderVars, appendVars>>

\* the remote call (.execute()) returns, raises what is retried, or raises
\* what is not; the finally clause is next
remote_call(t) ==
    /\ opc[t] = "execute"
    /\ \E pending \in {"return", "retry", "raise"} :
         /\ opending' = [opending EXCEPT ![t] = pending]
         /\ opc' = [opc EXCEPT ![t] = IF release_in_finally(pending) THEN "release"
                                      ELSE after_attempt(t, pending)]
    /\ UNCHANGED oattempt
    /\ UNCHANGED <<poolVars, clientVars, repoVars, totalsVars, delayVars, factoryVars,
                   updateVars, authVars, targetVars, stateVars, funderVars, appendVars>>

\* _release_service -> ConnectionPool.release_connection: queue for the lock
\* while it is held; with the lock, take the handle out of in_use; then the
\* attempt ends as the remote call decided
release_service(t) ==
    /\ opc[t] \in {"release", "rel_lock"}
    /\ IF lockOwner # NoTask
       THEN /\ opc[t] = "release"
            /\ opc' = [opc EXCEPT ![t] = "rel_lock"]
            /\ UNCHANGED <<in_use, held>>
       ELSE /\ in_use' = IF held[t] \in in_use THEN in_use \ {held[t]} ELSE in_use
            /\ held' = [held EXCEPT ![t] = NoHandle]
            /\ opc' = [opc EXCEPT ![t] = after_attempt(t, opending[t])]
    /\ UNCHANGED <<connections, lockOwner, ppc, polls, oattempt, opending>>
    /\ UNCHANGED <<clientVars, repoVars, totalsVars, delayVars, factoryVars,
                   updateVars, authVars, targetVars, stateVars, funderVars, appendVars>>

\* `await asyncio.sleep(delay); continue`
operation_backoff(t) ==
    /\ opc[t] = "backoff"
    /\ oattempt' = [oattempt EXCEPT ![t] = @ + 1]
    /\ opc' = [opc EXCEPT ![t] = "attempt"]
    /\ opending' = [opending EXCEPT ![t] = "none"]
    /\ UNCHANGED <<poolVars, clientVars, repoVars, totalsVars, delayVars, factoryVars,
                   updateVars, authVars, targetVars, stateVars, funderVars, appendVars>>

\* the caller has its answer and may call again
operation_done(t) ==
    /\ opc[t] \in {"returned", "raised"}
    /\ opc' = [opc EXCEPT ![t] = "idle"]
    /\ oattempt' = [oattempt EXCEPT ![t] = 0]
    /\ opending' = [opending EXCEPT ![t] = "none"]
    /\ UNCHANGED <<poolVars, clientVars, repoVars, totalsVars, delayVars, factoryVars,
                   updateVars, authVars, targetVars, stateVars, funderVars, appendVars>>

(***************************************************************************)
(* BaseRepository.create: append_rows under _execute_with_retry, against a *)
(* remote spreadsheet that may have applied a request whose response the   *)
(* client did not get                                                      *)
(***************************************************************************)
\* rows the remote tab has room for
MaxAppended == 4
CreatedIds == {"e1", "e2"}

\* how one invocation of `.append(...).execute()` ends for the client
AppendOutcomes == {"ok", "5xx", "exception", "4xx"}

NoCreate == [id |-> "", attempt |-> 0, before |-> 0]

AppendQuiet ==
    /\ remote_rows = << >>
    /\ crpc = "idle"
    /\ crcall = NoCreate

\* whether the remote applied the request: it did when it answered 200 and
\* did not when it refused the request (4xx); a 5xx answer, or an exception
\* raised while the response was awaited, says nothing about it
may_be_applied(outcome) ==
    IF outcome = "ok" THEN {TRUE}
    ELSE IF outcome = "4xx" THEN {FALSE}
    ELSE {TRUE, FALSE}

\* create(entity): the row is built and append_rows is called
create_entity_call ==
    /\ crpc = "idle"
    /\ Len(remote_rows) < MaxAppended
    /\ \E id \in CreatedIds :
         crcall' = [id |-> id, attempt |-> 0, before |-> Len(remote_rows)]
    /\ crpc' = "attempt"
    /\ UNCHANGED <<remote_rows, appendRest>>

\* one pass of the retry loop around _append_operation: the request is sent;
\* 200 returns, a 5xx or another exception is retried while attempts are
\* left and raises SheetsConnectionError otherwise, any other HttpError
\* raises at once
append_attempt ==
    /\ crpc = "attempt"
    /\ \E outcome \in AppendOutcomes :
         \E applied \in may_be_applied(outcome) :
           /\ remote_rows' = IF applied THEN Append(remote_rows, crcall.id)
                             ELSE remote_rows
           /\ crpc' = IF outcome = "ok" THEN "returned"
                      ELSE IF outcome = "4xx" THEN "raised"
                      ELSE IF crcall.attempt < DefaultMaxRetries THEN "backoff"
                      ELSE "raised"
    /\ UNCHANGED <<crcall, appendRest>>

\* `await asyncio.sleep(delay); continue`
append_backoff ==
    /\ crpc = "backoff"
    /\ crcall' = [crcall EXCEPT !.attempt = @ + 1]
    /\ crpc' = "attempt"
    /\ UNCHANGED <<remote_rows, appendRest>>

\* the caller has its answer and may call again
create_entity_done ==
    /\ crpc \in {"returned", "raised"}
    /\ crpc' = "idle"
    /\ crcall' = NoCreate
    /\ UNCHANGED <<remote_rows, appendRest>>

AuxQuiet == TotalsQuiet /\ DelayQuiet /\ FactoryQuiet /\ UpdateQuiet /\ AuthQuiet /\ TargetQuiet /\ StateQuiet /\ FunderQuiet /\ OpQuiet /\ AppendQuiet

(***************************************************************************)
(* Specifications                                                          *)
(***************************************************************************)
NextPool ==
    \E t \in Callers :
        \/ get_connection(t)
        \/ get_connection_blocked(t)
        \/ wait_for_connection(t)
        \/ release_connection(t)
        \/ release_connection_blocked(t)

InitPool == PoolInit /\ ClientQuiet /\ RepoInit /\ AuxQuiet

SpecPool == InitPool /\ [][NextPool]_vars

\* asyncio runs every ready coroutine and hands a free lock to its waiters
FairSpecPool ==
    /\ InitPool
    /\ [][NextPool]_vars
    /\ \A t \in Callers :
         /\ WF_vars(get_connection(t))
         /\ WF_vars(wait_for_connection(t))
         /\ WF_vars(release_connection(t))

NextClient ==
    \/ start_operation
    \/ execute_attempt
    \/ backoff_sleep
    \/ finish_operation
    \/ credentials_expire

InitClient == PoolInit /\ ClientInit /\ RepoInit /\ AuxQuiet

SpecClient == InitClient /\ [][NextClient]_vars

NextRepo ==
    \/ \E t \in Sequential :
          \/ get_all_call(t)
          \/ get_all_read(t)
          \/ get_by_id_call(t)
          \/ get_by_id_read(t)
          \/ create_call(t)
          \/ create_append(t)
          \/ batch_create_call(t)
          \/ batch_create_append(t)
          \/ update_call(t)
          \/ update_read1(t)
          \/ update_read2(t)
          \/ update_write(t)
          \/ delete_call(t)
          \/ delete_read(t)
          \/ delete_clear(t)
          \/ clear_cache(t)
          \/ return_to_caller(t)
    \/ tick
    \/ external_edit

InitRepo == PoolInit /\ ClientQuiet /\ RepoInit /\ AuxQuiet

SpecRepo == InitRepo /\ [][NextRepo]_vars

\* a repository of any of the six entity types
InitAnyRepo ==
    /\ PoolInit
    /\ AuxQuiet
    /\ ClientQuiet
    /\ \E class \in ModelClasses : RepoStart(<<Headers>>, class, MaxRows)

SpecAnyRepo == InitAnyRepo /\ [][NextRepo]_vars

\* rows a sheet may hold: an empty row (as delete leaves one), a row with too
\* few cells, and rows of entities
RowShapes == {<< >>, <<"a">>, <<"a", "x">>, <<"b", "x">>}
Tables ==
    {<<Headers>> \o body : body \in {b \in [1 .. TableRows -> RowShapes] : b[TableRows] # << >>}}

\* a repository over a sheet that already holds a table; nobody else edits
\* the sheet and nothing is appended
InitTable ==
    /\ PoolInit
    /\ AuxQuiet
    /\ ClientQuiet
    /\ \E table \in Tables : RepoStart(table, "Funder", TableRows)

NextTable ==
    \/ \E t \in Sequential :
          \/ get_all_call(t)
          \/ get_all_read(t)
          \/ get_by_id_call(t)
          \/ get_by_id_read(t)
          \/ update_call(t)
          \/ update_read1(t)
          \/ update_read2(t)
          \/ update_write(t)
          \/ delete_call(t)
          \/ delete_read(t)
          \/ delete_clear(t)
          \/ return_to_caller(t)
    \/ tick

SpecTable == InitTable /\ [][NextTable]_vars

\* tables without gaps: every data row holds an entity and no id is held
\* twice, so that an empty row can only be one that delete has cleared
CompactTables ==
    {<<Headers>> \o body :
        body \in {<<<<"a", "x">>>>, <<<<"b", "x">>>>,
                  <<<<"a", "x">>, <<"b", "x">>>>, <<<<"b", "x">>, <<"a", "x">>>>}}

InitCompact ==
    /\ PoolInit
    /\ AuxQuiet
    /\ ClientQuiet
    /\ \E table \in CompactTables : RepoStart(table, "Funder", TableRows)

SpecCompact == InitCompact /\ [][NextTable]_vars

\* one caller that looks entities up, creates, updates and deletes, over a
\* table that starts without gaps; no entry expires meanwhile
NextEdits ==
    \E t \in Sequential :
        \/ get_by_id_call(t)
        \/ get_by_id_read(t)
        \/ create_call(t)
        \/ create_append(t)
        \/ update_call(t)
        \/ update_read1(t)
        \/ update_read2(t)
        \/ update_write(t)
        \/ delete_call(t)
        \/ delete_read(t)
        \/ delete_clear(t)
        \/ return_to_caller(t)

SpecEdits == InitCompact /\ [][NextEdits]_vars

\* tables for listing: also rows with a cell too many
ListingShapes == RowShapes \cup {<<"b", "y", "?">>}
ListingTables ==
    {<<Headers>> \o body :
        body \in {b \in [1 .. TableRows -> ListingShapes] : b[TableRows] # << >>}}

InitListing ==
    /\ PoolInit
    /\ AuxQuiet
    /\ ClientQuiet
    /\ \E table \in ListingTables : RepoStart(table, "Funder", TableRows)

\* reads only
NextListing ==
    \/ \E t \in Sequential :
          \/ get_all_call(t)
          \/ get_all_read(t)
          \/ get_by_id_call(t)
          \/ get_by_id_read(t)
          \/ return_to_caller(t)
    \/ tick

SpecListing == InitListing /\ [][NextListing]_vars

\* the pool's callers and a task that checks the client's health
NextHealth ==
    \/ \E t \in Callers :
          \/ get_connection(t)
          \/ get_connection_blocked(t)
          \/ wait_for_connection(t)
          \/ release_connection(t)
          \/ release_connection_blocked(t)
    \/ health_check
    \/ health_check_wait
    \/ finish_operation
    \/ credentials_expire

InitHealth ==
    /\ PoolInit
    /\ AuxQuiet
    /\ ClientInit
    /\ max_retries = DefaultMaxRetries
    /\ RepoInit

SpecHealth == InitHealth /\ [][NextHealth]_vars

\* a client constructed with credentials and the default retry configuration:
\* its credentials can only go missing through a 401
NextUnauthorized ==
    \/ start_operation
    \/ execute_attempt
    \/ backoff_sleep
    \/ finish_operation
    \/ credentials_expire
    \/ health_check

InitUnauthorized == PoolInit /\ ClientQuiet /\ RepoInit /\ AuxQuiet

SpecUnauthorized == InitUnauthorized /\ [][NextUnauthorized]_vars

\* a repository with or without a spreadsheet id, read and health-checked
InitRepoHealth ==
    /\ PoolInit
    /\ AuxQuiet
    /\ ClientQuiet
    /\ \E table \in Tables, sid \in {"set", "none"} :
         RepoStartWith(table, "Funder", TableRows, sid)

NextRepoHealth ==
    \/ \E t \in Sequential :
          \/ get_all_call(t)
          \/ get_all_read(t)
          \/ get_by_id_call(t)
          \/ get_by_id_read(t)
          \/ repo_health_check_call(t)
          \/ repo_health_check_client(t)
          \/ repo_health_check_metadata(t)
          \/ return_to_caller(t)
    \/ tick

SpecRepoHealth == InitRepoHealth /\ [][NextRepoHealth]_vars

\* a repository over an empty table with room for a batch; reads fill the
\* caches that a batch is to invalidate
InitBatch ==
    /\ PoolInit
    /\ AuxQuiet
    /\ ClientQuiet
    /\ RepoStart(<<Headers>>, "Funder", TableRows)

NextBatch ==
    \/ \E t \in Sequential :
          \/ get_all_call(t)
          \/ get_all_read(t)
          \/ get_by_id_call(t)
          \/ get_by_id_read(t)
          \/ create_call(t)
          \/ create_append(t)
          \/ batch_create_call(t)
          \/ batch_create_append(t)
          \/ return_to_caller(t)
    \/ tick

SpecBatch == InitBatch /\ [][NextBatch]_vars

\* queries on a contribution repository over a given table
NextTotals ==
    \/ get_total_by_state_call
    \/ contributions_get_all_call
    \/ contributions_read
    \/ contributions_return

InitTotals ==
    /\ PoolInit /\ ClientQuiet /\ RepoInit
    /\ TotalsInit /\ DelayQuiet /\ FactoryQuiet /\ UpdateQuiet /\ AuthQuiet /\ TargetQuiet /\ StateQuiet /\ FunderQuiet /\ OpQuiet /\ AppendQuiet

SpecTotals == InitTotals /\ [][NextTotals]_vars

\* the delays of a client under a given retry configuration
NextDelay ==
    \/ calculate_delay_call
    \/ retry_sleep
    \/ operation_over

InitDelay ==
    /\ PoolInit /\ ClientQuiet /\ RepoInit
    /\ TotalsQuiet /\ DelayInit /\ FactoryQuiet /\ UpdateQuiet /\ AuthQuiet /\ TargetQuiet /\ StateQuiet /\ FunderQuiet /\ OpQuiet /\ AppendQuiet

SpecDelay == InitDelay /\ [][NextDelay]_vars

\* calls on one repository factory
NextFactory ==
    \/ repository_property_get
    \/ get_repository_by_name
    \/ get_all_repositories
    \/ clear_all_caches

InitFactory ==
    /\ PoolInit /\ ClientQuiet /\ RepoInit
    /\ TotalsQuiet /\ DelayQuiet /\ FactoryInit /\ UpdateQuiet /\ AuthQuiet /\ TargetQuiet /\ StateQuiet /\ FunderQuiet /\ OpQuiet /\ AppendQuiet

SpecFactory == InitFactory /\ [][NextFactory]_vars

\* two tasks that each call update once for the same entity
NextUpdates ==
    \/ \E u \in Updaters :
          \/ update_entity_call(u)
          \/ update_entity_found(u)
          \/ update_entity_located(u)
          \/ update_entity_write(u)
    \/ entity_looked_up
    \/ entries_expire

InitUpdates == PoolInit /\ ClientQuiet /\ RepoInit /\ AuxQuiet

SpecUpdates == InitUpdates /\ [][NextUpdates]_vars

\* several tasks authenticate while the credentials expire now and then
NextAuth ==
    \/ \E t \in AuthCallers :
          \/ auth_enter(t)
          \/ auth_check(t)
          \/ auth_refresh(t)
          \/ auth_return(t)
    \/ auth_expire

InitAuth ==
    /\ PoolInit
    /\ ClientInit
    /\ max_retries = DefaultMaxRetries
    /\ RepoInit
    /\ AuxQuiet

SpecAuth == InitAuth /\ [][NextAuth]_vars

\* two tasks that call create_or_update_target again and again
NextTargets ==
    \/ \E u \in Upserters :
          \/ create_or_update_target_call(u)
          \/ find_by_state_and_year_read(u)
          \/ create_target_append(u)
          \/ update_target_write(u)
          \/ target_returned(u)
    \/ target_entries_expire

InitTargets == PoolInit /\ ClientQuiet /\ RepoInit /\ AuxQuiet

SpecTargets == InitTargets /\ [][NextTargets]_vars

\* one caller of create_or_update_state and get_by_code on an empty tab
NextStates ==
    \/ create_or_update_state_call
    \/ get_by_code_call
    \/ get_by_id_state_read
    \/ state_written
    \/ state_returned
    \/ state_entries_expire

InitStates == PoolInit /\ ClientQuiet /\ RepoInit /\ AuxQuiet

SpecStates == InitStates /\ [][NextStates]_vars

\* one caller that adds tags and contributions to one stored funder
NextFunder ==
    \/ add_tag_call
    \/ add_contribution_to_funder_call
    \/ get_funder_read
    \/ update_funder_read
    \/ update_funder_write
    \/ funder_returned
    \/ funder_entries_expire

InitFunder == PoolInit /\ ClientQuiet /\ RepoInit /\ AuxQuiet

SpecFunder == InitFunder /\ [][NextFunder]_vars

\* three tasks that run client operations over a pool of MaxConnections
NextOperations ==
    \E t \in OpCallers :
        \/ operation_call(t)
        \/ get_service(t)
        \/ pool_wait(t)
        \/ remote_call(t)
        \/ release_service(t)
        \/ operation_backoff(t)
        \/ operation_done(t)

InitOperations == PoolInit /\ ClientQuiet /\ RepoInit /\ AuxQuiet

SpecOperations == InitOperations /\ [][NextOperations]_vars

\* one caller that creates entities one after the other
NextAppend ==
    \/ create_entity_call
    \/ append_attempt
    \/ append_backoff
    \/ create_entity_done

InitAppend == PoolInit /\ ClientQuiet /\ RepoInit /\ AuxQuiet

SpecAppend == InitAppend /\ [][NextAppend]_vars

\* a repository over a tab that nobody has written to: initialize_sheets
\* writes no header row, so the tab is empty when the first create is called
InitHeaderless ==
    /\ PoolInit
    /\ AuxQuiet
    /\ ClientQuiet
    /\ RepoStart(<< >>, "Funder", TableRows)

NextHeaderless ==
    \/ \E t \in Sequential :
          \/ create_call(t)
          \/ create_append(t)
          \/ get_all_call(t)
          \/ get_all_read(t)
          \/ get_by_id_call(t)
          \/ get_by_id_read(t)
          \/ return_to_caller(t)
    \/ tick

SpecHeaderless == InitHeaderless /\ [][NextHeaderless]_vars

\* reads by a caller that changes the entities it is handed; the sheet
\* itself never changes
NextAlias ==
    \/ \E t \in Sequential :
          \/ get_all_call(t)
          \/ get_all_read(t)
          \/ get_by_id_call(t)
          \/ get_by_id_read(t)
          \/ mutate_returned(t)
          \/ return_to_caller(t)
    \/ tick

SpecAlias == InitTable /\ [][NextAlias]_vars

(***************************************************************************)
(* Properties of the connection pool (SpecPool, FairSpecPool)              *)
(***************************************************************************)
\* C1: whatever the interleaving of get_connection and release_connection
\* calls, at most max_connections handles are in use and at most
\* max_connections handles have ever been built.
C1_PoolBounded ==
    /\ Cardinality(in_use) <= MaxConnections
    /\ connections <= MaxConnections
    /\ in_use \subseteq 1 .. connections

\* more callers than handles: every handle is in use and one caller waits
C1_Witness ==
    /\ Cardinality(in_use) = MaxConnections
    /\ connections = MaxConnections
    /\ \E t \in Callers : ppc[t] = "polling"

\* C2: with the pool at its limit, a caller waiting in get_connection gets a
\* handle once some holder has called release_connection, and every
\* release_connection call completes.
C2_WaiterServedAfterRelease ==
    \A t \in Callers, u \in Callers :
        /\ (ppc[t] = "polling" /\ ppc[u] = "rel_lock") ~> (ppc[t] = "holding")
        /\ (ppc[u] = "rel_lock") ~> (ppc[u] = "idle")

(***************************************************************************)
(* Properties of the retry loop (SpecClient)                               *)
(***************************************************************************)
InOperation == cpc # "idle"
Done == cpc \in {"returned", "raised"}
\* every attempt so far got past authentication and obtained a handle, so
\* attempts and invocations of the remote call coincide
EveryAttemptInvoked == skipped = 0

Is401(o) == o.kind = "http" /\ o.status = 401
IsRateLimit(o) == o.kind = "http" /\ o.status = 403 /\ o.quota
Is5xx(o) == o.kind = "http" /\ o.status >= 500
IsTransient(o) == Is5xx(o) \/ o.kind = "exc"
IsOtherHttp(o) ==
    /\ o.kind = "http"
    /\ o.status < 500
    /\ o.status # 401
    /\ ~(o.status = 403 /\ o.quota)

\* C3: an invocation that fails with 401 ends the operation at once with
\* SheetsAuthError and credentials set to none; when it is the first
\* invocation, the remote call was invoked once and nothing slept.
C3_UnauthorizedNotRetried ==
    (InOperation /\ calls >= 1) =>
        /\ Is401(script[calls]) =>
              /\ cpc = "raised"
              /\ result = Raised("SheetsAuthError")
              /\ credentials = "none"
        /\ (Is401(script[1]) /\ EveryAttemptInvoked) =>
              /\ calls = 1
              /\ sleeps = 0
              /\ attempt = 0

C3_Witness ==
    /\ cpc = "raised"
    /\ Is401(script[1])
    /\ calls = 1
    /\ sleeps = 0
    /\ max_retries = DefaultMaxRetries
    /\ credentials = "none"
    /\ result = Raised("SheetsAuthError")

\* C4: when the remote call fails with a 5xx status on its first k
\* invocations (k <= max_retries) and succeeds on the next, the operation
\* returns that invocation's result after exactly k + 1 invocations.
C4_TransientThenSuccess ==
    (Done /\ EveryAttemptInvoked) =>
        \A k \in 0 .. max_retries :
            ((\A i \in 1 .. k : Is5xx(script[i])) /\ script[k + 1] = Ok) =>
                /\ cpc = "returned"
                /\ result = Returned(k + 1)
                /\ calls = k + 1
                /\ sleeps = k

\* max_retries = 3: two 500s, then success on the third invocation
C4_Witness ==
    /\ cpc = "returned"
    /\ max_retries = 3
    /\ script[1] = HttpError(500, FALSE)
    /\ script[2] = HttpError(500, FALSE)
    /\ script[3] = Ok
    /\ calls = 3
    /\ result = Returned(3)

\* C5: when every invocation fails with a status >= 500 or with a non-HTTP
\* exception, the remote call is invoked max_retries + 1 times and the
\* operation raises SheetsConnectionError.
C5_TransientExhausted ==
    (Done /\ EveryAttemptInvoked
          /\ \A i \in 1 .. max_retries + 1 : IsTransient(script[i])) =>
        /\ calls = max_retries + 1
        /\ cpc = "raised"
        /\ result = Raised("SheetsConnectionError")

C5_Witness ==
    /\ cpc = "raised"
    /\ max_retries = DefaultMaxRetries
    /\ skipped = 0
    /\ \A i \in 1 .. max_retries + 1 : script[i] = OtherException
    /\ calls = max_retries + 1
    /\ result = Raised("SheetsConnectionError")

\* C6: when every invocation fails with a 403 that carries quota or rate
\* wording, the remote call is invoked max_retries + 1 times with one
\* backoff sleep between successive invocations, and the operation raises
\* SheetsRateLimitError.
C6_RateLimitExhausted ==
    (InOperation /\ EveryAttemptInvoked
                 /\ \A i \in 1 .. max_retries + 1 : IsRateLimit(script[i])) =>
        /\ cpc = "attempt" => sleeps = calls
        /\ cpc = "backoff" => sleeps = calls - 1
        /\ Done => /\ calls = max_retries + 1
                   /\ sleeps = max_retries
                   /\ cpc = "raised"
                   /\ result = Raised("SheetsRateLimitError")

C6_Witness ==
    /\ cpc = "raised"
    /\ max_retries = DefaultMaxRetries
    /\ skipped = 0
    /\ \A i \in 1 .. max_retries + 1 : IsRateLimit(script[i])
    /\ calls = max_retries + 1
    /\ sleeps = max_retries
    /\ result = Raised("SheetsRateLimitError")

\* C7: a 403 without quota or rate wording, and any other HTTP error below
\* 500 other than 401, ends the operation at once with the generic
\* SheetsError; when it is the first invocation, the remote call was invoked
\* once and nothing slept.
C7_OtherHttpNotRetried ==
    (InOperation /\ calls >= 1) =>
        /\ IsOtherHttp(script[calls]) =>
              /\ cpc = "raised"
              /\ result = Raised("SheetsError")
        /\ (IsOtherHttp(script[1]) /\ EveryAttemptInvoked) =>
              /\ calls = 1
              /\ sleeps = 0
              /\ attempt = 0

C7_Witness ==
    /\ cpc = "raised"
    /\ max_retries = DefaultMaxRetries
    /\ script[1] = HttpError(429, TRUE)
    /\ calls = 1
    /\ sleeps = 0
    /\ result = Raised("SheetsError")

\* C8: each of the six operations, whatever the remote call does, invokes it
\* at most max_retries + 1 times, moves forward with every step, and ends
\* either with a result or with one of the four Sheets errors.
C8_BoundedAndTyped ==
    InOperation =>
        /\ opName \in ClientOps
        /\ attempt <= max_retries
        /\ calls <= max_retries + 1
        /\ cpc = "attempt" => calls + skipped = attempt
        /\ cpc = "backoff" => calls + skipped = attempt + 1
        /\ cpc = "returned" => result = Returned(calls)
        /\ cpc = "raised" => /\ result.kind = "error"
                             /\ result.exc \in SheetsErrors

\* the longest run: the last allowed attempt ends the operation
C8_Witness ==
    /\ Done
    /\ opName = "batch_update"
    /\ max_retries = DefaultMaxRetries
    /\ calls = max_retries + 1

(***************************************************************************)
(* Claims about the repository cache                                       *)
(***************************************************************************)
Writers == {"create", "batch_create", "update", "delete"}

\* C9: two get_all() calls within the TTL window, with no create,
\* batch_create, update, delete or clear_cache called between them, make one
\* read_range call at most between them - the one of the first call, when it
\* missed the cache - and the second call returns the list the first returned.
C9_SecondGetAllFromCache ==
    hist.pair.seen =>
        /\ hist.pair.secondReads = 0
        /\ hist.pair.second = hist.pair.first
        /\ hist.pair.firstReads + hist.pair.secondReads <= 1

\* the first call read the sheet, the sheet was edited by someone else at the
\* last moment of the window, and the second call still returned the first list
C9_Witness ==
    /\ hist.pair.seen
    /\ hist.pair.firstReads = 1
    /\ hist.pair.second # << >>
    /\ parse_rows(sheet) # hist.pair.second
    /\ now = list_cache.expires_at

\* the state just after a call that wrote, and the get_all that follows one
caches_invalidated(t) ==
    /\ ~list_cache.present
    /\ hist.last.name \in {"update", "delete"} => ~cache[hist.last.id].present
reads_again(t) == rcalls[t].read = 1

\* C10 as stated: immediately after any create, batch_create, update or
\* delete that succeeded, the list cache is empty and, for update and delete,
\* the per-id entry of the id is absent; the next get_all() calls read_range.
C10_AnySuccessInvalidates ==
    \A t \in RepoCallers :
        rpc[t] = "done" =>
            /\ (hist.last.name \in Writers /\ hist.last.ok) => caches_invalidated(t)
            /\ (hist.last.name = "get_all" /\ hist.before.name \in Writers)
                  => reads_again(t)

\* what the call wrote: batch_create of an empty list writes nothing
wrote_rows(w) == w.name \in Writers /\ ~(w.name = "batch_create" /\ w.n = 0)

\* C10, amended: immediately after a create, a batch_create of a non-empty
\* list, an update that returned the entity or a delete that returned True,
\* the list cache is empty and, for update and delete, the per-id entry of
\* the id is absent; the next get_all() calls read_range.
C10_WriteInvalidates ==
    \A t \in RepoCallers :
        rpc[t] = "done" =>
            /\ (wrote_rows(hist.last) /\ hist.last.ok) => caches_invalidated(t)
            /\ (hist.last.name = "get_all" /\ wrote_rows(hist.before))
                  => reads_again(t)

\* a get_all called right after an update has read the sheet and returns the
\* updated entity
C10_Witness ==
    \E t \in RepoCallers :
        /\ rpc[t] = "done"
        /\ hist.last.name = "get_all"
        /\ hist.before.name = "update"
        /\ rret[t].kind = "list"
        /\ \E i \in 1 .. Len(rret[t].list) : rret[t].list[i].name = "y"
        /\ rcalls[t].read = 1

(***************************************************************************)
(* Claims about create, get_by_id, update and delete                       *)
(***************************************************************************)
\* C11: for each entity type, after create(e) has succeeded for an e whose
\* id was not in the table, get_by_id(e.id) returns an entity equal to e,
\* whether the cache entries are live or have expired (the table is not
\* written to in between, and the client's read does not fail).
C11_CreatedIsFound ==
    \A t \in RepoCallers :
        ( /\ rpc[t] = "done"
          /\ hist.last.name = "get_by_id"
          /\ hist.created # NoEntity
          /\ hist.last.id = hist.created.id
          /\ rret[t].kind # "error" )
        => rret[t] = RetEntity(hist.created)

\* the step is caller t calling `name`: the call returns at once or suspends
calls_now(t, name) ==
    /\ rpc[t] = "idle"
    /\ rpc'[t] # "idle"
    /\ name = (IF rpc'[t] = "done" THEN hist'.last.name ELSE rop'[t].name)
called_id(t) == IF rpc'[t] = "done" THEN hist'.last.id ELSE rop'[t].id
\* the call made no client call and returned a value
served_from_cache(t) == rpc'[t] = "done" /\ rret'[t].kind # "error"
stale(entry) == entry.present /\ now > entry.expires_at
live(entry) == entry.present /\ now <= entry.expires_at
\* every entry expires cache_ttl after it was stored, at the latest
entry_lifetime ==
    /\ list_cache.present => list_cache.expires_at <= now + CacheTtl
    /\ \A id \in Ids : cache[id].present => cache[id].expires_at <= now + CacheTtl

rows_of(id) == {n \in 2 .. Len(sheet) : Len(sheet[n]) > 0 /\ sheet[n][1] = id}
\* `id` is stored: one row has it, and the row is an entity's
stored(id) == Cardinality(rows_of(id)) = 1 /\ \A n \in rows_of(id) : parses(sheet[n])
\* rows of the table that hold something
data_row_count == Cardinality({n \in 2 .. Len(sheet) : sheet[n] # << >>})

\* C13: in a table of three data rows or more, delete(id) for a stored id
\* clears the row whose identifier cell holds id and returns True: the row
\* its clear_range call names is that row, and it does not return False.
C13_DeleteClearsItsRow ==
    \A t \in RepoCallers :
        /\ ( /\ rpc[t] = "delete:clear"
             /\ data_row_count >= 3
             /\ stored(rop[t].id) )
           => rloc[t].row \in rows_of(rop[t].id)
        /\ ( /\ rpc[t] = "done"
             /\ hist.last.name = "delete"
             /\ data_row_count >= 3
             /\ stored(hist.last.id) )
           => rret[t].kind # "false"

\* the method caller t is in, or has just returned from
method(t) == IF rpc[t] = "done" THEN hist.last.name ELSE rop[t].name
\* the call failed in the client, not in the repository
client_failed(t) == rret[t].kind = "error" /\ rret[t].exc \in SheetsErrors

\* C14: update(id, fields) and delete(id) for an id that is neither in the
\* cache nor in the table issue no write_range, clear_range or append_rows
\* call, so no row changes; update returns absent and delete returns False,
\* and nothing is raised unless the client's read fails.
C14_UnknownIdLeftAlone ==
    \A t \in RepoCallers :
        (method(t) \in {"update", "delete"} /\ ~hist.known) =>
            /\ rcalls[t].write = 0
            /\ rcalls[t].clear = 0
            /\ rcalls[t].append = 0
            /\ rpc[t] = "done" =>
                 \/ client_failed(t)
                 \/ method(t) = "update" /\ rret[t] = RetAbsent
                 \/ method(t) = "delete" /\ rret[t] = RetBool(FALSE)

\* an update for an id that is not stored has read a table that holds another
\* entity, and has returned absent
C14_Witness ==
    \E t \in RepoCallers :
        /\ rpc[t] = "done"
        /\ hist.last.name = "update"
        /\ ~hist.known
        /\ rret[t] = RetAbsent
        /\ rcalls[t].read = 1
        /\ \E id \in Ids : stored(id)

\* a row that holds an entity: an id cell and a name, whatever follows
well_formed(row) == Len(row) >= 2 /\ row[2] \in Names
entity_of(row) == [id |-> row[1], name |-> row[2]]
\* the entities of the well-formed rows among rows n.. of the sheet, in order
RECURSIVE listing_from(_)
listing_from(n) ==
    IF n > Len(sheet) THEN << >>
    ELSE IF well_formed(sheet[n]) THEN <<entity_of(sheet[n])>> \o listing_from(n + 1)
    ELSE listing_from(n + 1)

\* C15: get_all() does not raise because of what the rows hold: whenever the
\* client's read succeeds it returns the entities of the well-formed data
\* rows, in sheet order, and leaves the malformed rows out.
C15_ListingSkipsBadRows ==
    \A t \in RepoCallers :
        (rpc[t] = "done" /\ hist.last.name = "get_all") =>
            /\ rret[t].kind \in {"list", "error"}
            /\ rret[t].kind = "error" => client_failed(t)
            /\ rret[t].kind = "list" => rret[t].list = listing_from(2)

\* a listing that left out a malformed row and kept a well-formed row below it
C15_Witness ==
    \E t \in RepoCallers :
        /\ rpc[t] = "done"
        /\ hist.last.name = "get_all"
        /\ rcalls[t].read = 1
        /\ rret[t].kind = "list"
        /\ Len(rret[t].list) = 2
        /\ sheet[2] = <<"a">>
        /\ Len(sheet[3]) = 3

\* the call raised a validation error
validation_failed(t) ==
    /\ rpc[t] = "done"
    /\ hist.last.name \in {"create", "batch_create", "update"}
    /\ rret[t] = RetError("ValueError")

table_entity(id) ==
    LET entities == parse_rows(sheet)
        idx == find_index(entities, id)
    IN  IF idx > 0 THEN RetEntity(entities[idx]) ELSE RetAbsent

\* C17 as stated: what get_all and get_by_id return is a snapshot of the
\* table. Over a table that nobody writes to, every get_all returns the
\* entities of the table's rows and every get_by_id the table's entity for
\* the id, whatever a caller has done to the entities it was handed before.
C17_ReturnedAreSnapshots ==
    \A t \in RepoCallers :
        rpc[t] = "done" =>
            /\ hist.last.name = "get_all" /\ rret[t].kind = "list" =>
                 rret[t].list = parse_rows(sheet)
            /\ hist.last.name = "get_by_id" /\ rret[t].kind \in {"entity", "absent"} =>
                 rret[t] = table_entity(hist.last.id)

(***************************************************************************)
(* Health checks                                                           *)
(***************************************************************************)
\* this step is health_check returning
health_check_returns ==
    /\ cpc = "idle"
    /\ cpc' = "returned"
    /\ opName' = "health_check"

\* C18: SheetsClient.health_check never raises. Whenever it returns, the
\* result is False if no credentials are configured or authentication or the
\* acquisition of a handle failed, and True otherwise; when it is True the
\* handle it acquired has been released, so that the pool's in-use set is as
\* it was before the call.
C18_HealthCheckTotal ==
    [][health_check_returns =>
         /\ result'.kind \in {"true", "false"}
         /\ credentials = "none" => result'.kind = "false"
         /\ result'.kind = "false" <=> skipped' = 1
         /\ result'.kind = "false" =>
              credentials = "none" \/ needsRefresh \/ (IdleHandles = {} /\ UnderLimit)
         /\ result'.kind = "true" => in_use' = in_use /\ held' = held]_vars

\* health_check has returned True while another task holds a handle
C18_Witness ==
    /\ cpc = "returned"
    /\ opName = "health_check"
    /\ result.kind = "true"
    /\ in_use # {}

\* the repository's health check has returned
health_checked(t) ==
    /\ rpc[t] = "done"
    /\ hist.last.name = "health_check"

\* C19 as stated: BaseRepository.health_check never raises; it returns False
\* whenever the client's health check failed or the metadata fetch failed,
\* and True only if the client is healthy and, when a spreadsheet id is
\* configured, the metadata fetch succeeded.
C19_RepoHealthReflectsClient ==
    \A t \in RepoCallers :
        health_checked(t) =>
            /\ rret[t].kind \in {"true", "false"}
            /\ hist.health = "false" => rret[t].kind = "false"
            /\ hist.metadata \notin {"none", "ok"} => rret[t].kind = "false"
            /\ rret[t].kind = "true" =>
                 /\ hist.health = "true"
                 /\ spreadsheet_id = "set" => hist.metadata = "ok"

(***************************************************************************)
(* batch_create                                                            *)
(***************************************************************************)
\* the rows of a batch, in the order of the batch
batch_rows(es) == [i \in 1 .. Len(es) |-> <<es[i].id, es[i].name>>]

\* this step is batch_create returning or raising without a client call
batch_returns_at_once(t) ==
    /\ rpc[t] = "idle"
    /\ rpc'[t] = "done"
    /\ hist'.last.name = "batch_create"

\* this step is batch_create returning after append_rows succeeded
batch_appended(t) ==
    /\ rpc[t] = "batch_create:append"
    /\ rret'[t].kind = "list"

\* C20: batch_create of a non-empty list of valid entities issues exactly
\* one append_rows call, with one row per entity in the order of the input,
\* leaves both caches empty and returns the entities; batch_create of an
\* empty list returns an empty list and issues no client call.
C20_BatchIsOneAppend ==
    [][\A t \in RepoCallers :
         /\ batch_returns_at_once(t) =>
              /\ rcalls'[t] = NoCalls
              /\ sheet' = sheet
              /\ IF hist'.last.n = 0
                 THEN rret'[t] = RetList(<< >>)
                 ELSE rret'[t] = RetError("ValueError")
         /\ rpc'[t] = "batch_create:append" /\ rpc[t] = "idle" =>
              /\ Len(rop'[t].batch) > 0
              /\ \A i \in 1 .. Len(rop'[t].batch) : rop'[t].batch[i].name # ""
              /\ rcalls'[t] = [NoCalls EXCEPT !.append = 1]
         /\ batch_appended(t) =>
              /\ sheet' = sheet \o batch_rows(rop[t].batch)
              /\ rret'[t].list = rop[t].batch
              /\ rcalls'[t] = [NoCalls EXCEPT !.append = 1]
              /\ ~list_cache'.present
              /\ \A id \in Ids : ~cache'[id].present]_vars

\* a batch of two different entities has been appended by one append_rows
C20_Witness ==
    \E t \in RepoCallers :
        /\ rpc[t] = "done"
        /\ hist.last.name = "batch_create"
        /\ rret[t].kind = "list"
        /\ Len(rret[t].list) = 2
        /\ rret[t].list[1] # rret[t].list[2]
        /\ Len(sheet) >= 3
        /\ rcalls[t].append = 1

(***************************************************************************)
(* Contributions                                                           *)
(***************************************************************************)
\* the rows of the table that load as contributions of the state and, when a
\* year is given, of the year, with a status of confirmed or received
rows_counted(state, year) ==
    {i \in 1 .. Len(contributions) :
        LET r == contributions[i]
        IN  /\ r.amount.kind = "number"
            /\ r.amount.n > 0
            /\ r.fiscal_year \in {"2023-24", "2024-25"}
            /\ r.state_code \in {state, IF state = "CA" THEN "ca" ELSE "ny"}
            /\ year # "" => r.fiscal_year = year
            /\ r.status \in {"confirmed", "received"}}

RECURSIVE sum_rows(_)
sum_rows(S) ==
    IF S = {} THEN 0
    ELSE LET i == CHOOSE x \in S : TRUE
         IN  contributions[i].amount.n + sum_rows(S \ {i})

asked_state == IF tquery.state_code = "ca" THEN "CA" ELSE tquery.state_code

\* C21: get_total_by_state(s, fiscal_year) returns the sum of the amounts of
\* exactly the contributions of state s (and of the fiscal year, when one is
\* given) whose status is confirmed or received; pending and cancelled
\* contributions add nothing.
C21_TotalOfCounted ==
    tpc = "done" /\ tquery.op = "get_total_by_state" /\ tanswer.kind = "total" =>
        tanswer.total = sum_rows(rows_counted(asked_state, tquery.fiscal_year))

\* confirmed 50 + received 30 + pending 20 has given exactly 80
C21_Witness ==
    /\ tpc = "done"
    /\ tquery.op = "get_total_by_state"
    /\ tquery.fiscal_year = ""
    /\ {contributions[i].id : i \in 1 .. Len(contributions)} = {"c1", "c2", "c3"}
    /\ tanswer.kind = "total"
    /\ tanswer.total = 80

\* C22 as stated: a row whose amount cell is no number is loaded by get_all()
\* as a contribution with amount zero and the rest of the row intact; it is
\* not dropped.
C22_BadAmountLoadsAsZero ==
    tpc = "done" /\ tquery.op = "get_all" /\ tanswer.kind = "list" =>
        \A i \in 1 .. Len(contributions) :
            contributions[i].amount.kind = "text" =>
                \E j \in 1 .. Len(tanswer.list) :
                    /\ tanswer.list[j].id = contributions[i].id
                    /\ tanswer.list[j].amount = 0
                    /\ tanswer.list[j].fiscal_year = contributions[i].fiscal_year

(***************************************************************************)
(* Backoff delays                                                          *)
(***************************************************************************)
\* C23: with the default retry configuration the delays slept between the
\* successive attempts of one operation never decrease, whatever the jitter.
C23_DelaysNeverDecrease ==
    retry_config = DefaultRetryConfig =>
        \A i \in 1 .. Len(slept) - 1 : slept[i] <= slept[i + 1]

\* under the defaults an operation has slept before each of its retries
C23_Witness ==
    /\ retry_config = DefaultRetryConfig
    /\ Len(slept) = DefaultMaxRetries

\* min(base_delay * 2 ^ n, max_delay), in quarters of a second
capped_delay(n) ==
    LET grown == retry_config.base_delay * 2 ^ (IF n > PowerCap THEN PowerCap ELSE n)
    IN  4 * (IF grown < retry_config.max_delay THEN grown ELSE retry_config.max_delay)

\* C24 as stated: for every attempt number n >= 0, _calculate_delay(n)
\* without jitter is min(base_delay * exponential_base ^ n, max_delay), and
\* with jitter lies between half of that and that; no delay is above
\* max_delay.
C24_DelayFormula ==
    delay.kind # "none" =>
        /\ delay.kind = "value"
        /\ delay.quarters <= 4 * retry_config.max_delay
        /\ IF retry_config.jitter
           THEN /\ 2 * delay.quarters >= capped_delay(delay.attempt)
                /\ delay.quarters <= capped_delay(delay.attempt)
           ELSE delay.quarters = capped_delay(delay.attempt)

(***************************************************************************)
(* C25: for each of the six repository types every access to the factory's *)
(* property returns the same instance: a slot that holds an instance keeps *)
(* that instance in every step, what an access returns is the instance in  *)
(* the slot, and every instance carries the factory's own client and       *)
(* spreadsheet id.                                                         *)
(***************************************************************************)
slots_kept ==
    \A name \in RepositoryTypes :
        factory.repos[name] # NoRepository => factory'.repos[name] = factory.repos[name]

returns_slot ==
    /\ got'.kind = "one" => got'.value = factory'.repos[got'.name]
    /\ got'.kind = "all" => got'.value = factory'.repos

shares_configuration ==
    \A name \in RepositoryTypes :
        factory'.repos[name] # NoRepository =>
            /\ factory'.repos[name].sheets_client = factory'.sheets_client
            /\ factory'.repos[name].spreadsheet_id = factory'.spreadsheet_id

C25_OneInstancePerType ==
    [][slots_kept /\ returns_slot /\ shares_configuration]_vars

\* a property read again after all six instances exist, under a factory
\* that took its spreadsheet id from the settings
C25_Witness ==
    /\ got.kind = "one"
    /\ ~got.fresh
    /\ factory.built = Len(RepositoryOrder)
    /\ factory.spreadsheet_id = "sheet of settings"

(***************************************************************************)
(* C26: once a 401 has dropped the credentials, every later operation      *)
(* fails with SheetsAuthError after a single attempt, with no backoff      *)
(* sleep and no retry, and health_check returns False.  An operation that  *)
(* has made no remote call while the credentials are missing is one that   *)
(* started after the 401.                                                  *)
(***************************************************************************)
started_unauthorized ==
    /\ credentials = "none"
    /\ opName \in ClientOps
    /\ calls = 0

C26_UnauthorizedFailsAtOnce ==
    /\ started_unauthorized =>
         /\ cpc # "backoff"
         /\ sleeps = 0
         /\ skipped <= 1
         /\ cpc = "raised" => result = Raised("SheetsAuthError")
    /\ (credentials = "none" /\ opName = "health_check" /\ cpc = "returned") =>
         result = HealthResult(FALSE)

(***************************************************************************)
(* C27: starting from a table without gaps, after any sequence of updates  *)
(* and deletes (a delete blanks its row and shifts nothing), the row an    *)
(* update is about to rewrite and the row a delete is about to clear is    *)
(* the row that holds the target id, whenever that id is stored.           *)
(***************************************************************************)
C27_TargetsOwnRow ==
    \A t \in RepoCallers :
        (rpc[t] \in {"update:write", "delete:clear"} /\ stored(rop[t].id)) =>
            rloc[t].row \in rows_of(rop[t].id)

(***************************************************************************)
(* C28: once a create, update or delete has returned, the caches hold no   *)
(* data from before it, also when a get_all or get_by_id of another caller *)
(* was suspended in its read meanwhile: at every moment a live list entry  *)
(* is the listing of the sheet as it is, and a live per-id entry is an     *)
(* entity the sheet holds under that id.                                   *)
(***************************************************************************)
held_in_sheet(e) ==
    \E i \in 1 .. Len(parse_rows(sheet)) : parse_rows(sheet)[i] = e

C28_CachesReflectSheet ==
    /\ live(list_cache) => list_cache.data = parse_rows(sheet)
    /\ \A id \in Ids : live(cache[id]) => held_in_sheet(cache[id].data)

(***************************************************************************)
(* C29: two update calls on the same id with disjoint field sets, running  *)
(* concurrently, both take effect: once both have returned, the stored row *)
(* holds the value each of them set.                                       *)
(***************************************************************************)
C29_BothUpdatesStored ==
    (\A u \in Updaters : upc[u] = "returned") =>
        /\ urow.name = updates(1).value
        /\ urow.status = updates(2).value

(***************************************************************************)
(* C30: when update has returned absent or delete has returned False for   *)
(* an id, the get_by_id of that id that follows at once reports absent     *)
(* too (and so does exists, which is get_by_id compared with None), unless *)
(* the client's read fails.                                                *)
(***************************************************************************)
C30_AbsentStaysAbsent ==
    \A t \in RepoCallers :
        ( /\ rpc[t] = "done"
          /\ hist.last.name = "get_by_id"
          /\ hist.gone = hist.last.id )
        => rret[t].kind \in {"absent", "error"}

(***************************************************************************)
(* C31: the refresh of the credentials is serialized by the auth lock: at  *)
(* most one task is refreshing at any time and the credentials are         *)
(* refreshed at most once per expiry; a refresh happens only while they    *)
(* are expired or older than 50 minutes, and a task leaves without a       *)
(* refresh only while they are fresh.                                      *)
(***************************************************************************)
refreshing == {t \in AuthCallers : apc[t] = "refreshing"}

C31_RefreshSerialized ==
    [][ /\ Cardinality(refreshing') <= 1
        /\ refreshed' <= 1
        /\ refreshed' > refreshed => needsRefresh
        /\ \A t \in AuthCallers :
             (apc[t] = "locked" /\ apc'[t] = "passed") => ~needsRefresh ]_vars

\* after an expiry one task has refreshed the credentials and another, which
\* came while they were expired, has passed without refreshing
C31_Witness ==
    /\ refreshed = 1
    /\ \E t, u \in AuthCallers :
         /\ apc[t] = "refreshed"
         /\ apc[u] = "passed"

(***************************************************************************)
(* C32: whatever the interleaving of create_or_update_target calls, the    *)
(* tab holds at most one target row for each (state_code, fiscal_year).    *)
(***************************************************************************)
targets_for(pair) == {i \in 1 .. Len(target_sheet) : target_sheet[i].pair = pair}

C32_OneTargetPerPair ==
    \A pair \in Pairs : Cardinality(targets_for(pair)) <= 1

(***************************************************************************)
(* C33: after any sequence of create_or_update_state calls the tab holds   *)
(* at most one row per state code (a call for a stored code updates its    *)
(* row and appends nothing), and get_by_code of a stored code returns the  *)
(* stored state.                                                           *)
(***************************************************************************)
states_with(code) == {i \in 1 .. Len(state_sheet) : state_sheet[i].code = code}

C33_OneRowPerCode ==
    /\ \A code \in StoredCodes : Cardinality(states_with(code)) <= 1
    /\ ( /\ stpc = "returned"
         /\ stloc.method = "get_by_code"
         /\ states_with(upper(stloc.code)) # {} )
       => /\ stret.kind = "entity"
          /\ \E i \in states_with(upper(stloc.code)) : stret.entity = state_sheet[i]

(***************************************************************************)
(* C34: when add_tag or add_contribution_to_funder returns a funder that   *)
(* holds the given tag or contribution id, the funder's stored row holds   *)
(* it too, also after an earlier call for the item failed in its write.    *)
(***************************************************************************)
C34_ReturnedItemIsStored ==
    ( /\ fpc = "returned"
      /\ fret.kind = "entity"
      /\ holds_item(fret.entity, floc) )
    => holds_item(funder_row, floc)

(***************************************************************************)
(* C35: every attempt of a client operation gives back the handle it took  *)
(* before the attempt ends, however it ends: a task in its backoff sleep   *)
(* holds no handle, a task whose operation has returned or raised holds    *)
(* none, and every handle marked in use is held by an attempt in progress. *)
(***************************************************************************)
between_attempts(t) == opc[t] \in {"idle", "backoff", "returned", "raised"}

C35_HandleReleased ==
    /\ \A t \in OpCallers : between_attempts(t) => held[t] = NoHandle
    /\ in_use = {held[t] : t \in {u \in OpCallers : held[u] # NoHandle}}

\* one task sleeps after a failed remote call, one has raised and one has
\* returned, and no handle is in use
C35_Witness ==
    /\ \E t, u, v \in OpCallers :
         /\ opc[t] = "backoff" /\ opending[t] = "retry"
         /\ opc[u] = "raised" /\ opending[u] = "raise"
         /\ opc[v] = "returned"
    /\ connections > 0
    /\ in_use = {}

(***************************************************************************)
(* C36: no pool handle is held by two callers at the same time: a handle   *)
(* that get_connection returns was not in use when it was taken, the       *)
(* handles held are all different and marked in use, and a handle is built *)
(* only when no existing handle is idle.                                   *)
(***************************************************************************)
holders == {t \in Callers : held[t] # NoHandle}

C36_HandleExclusive ==
    [][ /\ \A t \in Callers :
             (held[t] = NoHandle /\ held'[t] # NoHandle) =>
                 /\ held'[t] \notin in_use
                 /\ \A u \in Callers \ {t} : held[u] # held'[t]
        /\ \A t \in holders', u \in holders' : t # u => held'[t] # held'[u]
        /\ {held'[t] : t \in holders'} \subseteq in_use'
        /\ connections' > connections => IdleHandles = {} ]_vars

\* two callers hold the two handles of the pool at the same time
C36_Witness ==
    \E t, u \in Callers :
        /\ held[t] = 1 /\ held[u] = 2
        /\ connections = MaxConnections
        /\ in_use = {1, 2}
        /\ ppc[t] = "holding" /\ ppc[u] = "holding"

(***************************************************************************)
(* C37: a create(e) that returns has appended e's row to the table exactly *)
(* once, also when the client retried the append after an attempt that     *)
(* failed with a 5xx answer or a non-HTTP exception.                       *)
(***************************************************************************)
C37_AppendedOnce ==
    crpc = "returned" =>
        /\ Len(remote_rows) = crcall.before + 1
        /\ remote_rows[Len(remote_rows)] = crcall.id

(***************************************************************************)
(* C38: get_all drops the first row of the range only when it is the       *)
(* header row: an entity whose row is the first row of the tab is in the   *)
(* list get_all returns and is found by get_by_id.                         *)
(***************************************************************************)
below_header(values) ==
    IF Len(values) > 0 /\ values[1] = Headers THEN Tail(values) ELSE values
entities_held == parse_rows(<<Headers>> \o below_header(sheet))

C38_FirstDataRowKept ==
    \A t \in RepoCallers :
        /\ ( /\ rpc[t] = "done"
             /\ hist.last.name = "get_all"
             /\ rret[t].kind = "list" )
           => rret[t].list = entities_held
        /\ ( /\ rpc[t] = "done"
             /\ hist.last.name = "get_by_id"
             /\ rret[t].kind # "error"
             /\ \E i \in 1 .. Len(entities_held) : entities_held[i].id = hist.last.id )
           => rret[t].kind = "entity"

====
